---- MODULE Spec2Model ----
(***************************************************************************)
(* Calendar synchronisation core of Morph: the fan-out aggregator          *)
(* (calendar/aggregator.rs) and the background poller (calendar/poller.rs). *)
(*                                                                         *)
(* The specifications sharing the definitions below:                       *)
(*   SpecDedup     deduplicate_events applied to arbitrary bounded lists   *)
(*   SpecAgg       CalendarAggregator: add/remove provider, fetch_events   *)
(*   Spec          CalendarPoller::start driving the aggregator            *)
(*   SpecCache     cache_events / load_cached_events                       *)
(*   SpecSync      force_sync next to the poller                           *)
(*   SpecProvider  one web provider object: connect, restore, refresh      *)
(*   SpecToken     the token validity checks                               *)
(*   SpecRemove    remove_provider between two fetch_events calls          *)
(*   SpecApp       the commands and tasks sharing the aggregator lock      *)
(*   SpecCallback  one OAuth attempt and its redirect listener             *)
(*   SpecFlows     OAuth attempts at once, on the loopback port ranges     *)
(*   SpecDisconnect  the poller with one disconnect between its cycles     *)
(***************************************************************************)
EXTENDS Integers, Sequences, FiniteSets, TLC

VARIABLES
    \* --- SpecDedup: one application of deduplicate_events
    dd_input,           \* the Vec<CalendarEvent> handed to deduplicate_events
    dd_calls,           \* how many times deduplicate_events has been applied
    dd_once,            \* deduplicate_events(dd_input), once dd_calls >= 1
    dd_twice,           \* deduplicate_events(dd_once), once dd_calls = 2
    \* --- CalendarAggregator
    providers,          \* CalendarAggregator.providers: Vec of provider ids
    agg_pc,             \* "idle", or "returned" while a caller holds a result
    agg_outcomes,       \* what each provider answered in that fetch_events
    agg_result,         \* the AggregatorResult the caller holds
    \* --- CalendarPoller::start
    poller_pc,          \* "init", "exited" (no SQLite pool) or "sleeping"
    cold_load,          \* load_cached_events at cold start: "none", "failed", "ok"
    cycle_no,           \* loop iterations run so far
    last_fingerprints,  \* HashMap<String, EventFingerprint>, as (key, value) pairs
    poll_result,        \* the AggregatorResult of the latest iteration
    cache,              \* rows of table calendar_events, in rowid order
    topic,              \* latest payload on "calendar-events-update", if any
    emit_log,           \* payloads the latest poller step emitted
    write_log,          \* arguments of the latest poller step's cache_events calls
    \* --- SpecCache: cache_events / load_cached_events on table calendar_events
    cw_pc,              \* "idle", or "written" until the next load_cached_events
    cw_calls,           \* cache_events calls made so far
    cw_prev,            \* the committed rows when the latest call began
    cw_events,          \* the events handed to the latest call
    cw_fault,           \* the statement the latest call broke at (0: none)
    cw_outcome,         \* "none", "committed", "rejected", "error", "crashed"
    cw_loaded,          \* what the latest load_cached_events returned
    \* --- SpecSync: the force_sync command
    fs_calls,           \* force_sync commands run so far
    fs_result,          \* the AggregatorResult of the latest force_sync
    fs_emitted,         \* payloads the latest force_sync emitted
    \* --- SpecProvider / SpecToken: one web provider (google.rs, microsoft.rs)
    wp,                 \* the provider object: its fields
    wp_connected,       \* whether the object has been added to the aggregator
    wp_issued,          \* whether the object was ever given a refresh token
    keyring,            \* the credential store entries of the account
    clock,              \* Utc::now(), in seconds
    wp_op,              \* the latest operation on the object and its outcome
    \* --- SpecRemove: remove_provider between two fetch_events
    rm_pc,              \* "start", "fetched", "removed", "again" or "refetched"
    rm_id,              \* the provider_id handed to remove_provider
    rm_before,          \* the provider list as each remove_provider call found it
    rm_found,           \* what each remove_provider call returned
    rm_first,           \* the AggregatorResult of the fetch before the removal
    \* --- SpecApp: the commands and background tasks sharing the aggregator
    agg_lock,           \* holder of the tokio Mutex around the aggregator, or "free"
    task_pc,            \* where each task stands
    cmd_args,           \* provider type of connect/disconnect, and connect's path
    cmd_result,         \* what connect and disconnect returned, if they have
    conn_obj,           \* provider_id of the object connect authenticated
    fetch_pass,         \* per fetching task: the lists its provider calls saw
    app_cycles,         \* poller iterations finished
    db_providers,       \* rows of table calendar_providers
    vault,              \* the OS keyring: entries (service, key, value)
    status_log,         \* payloads published on "provider-status-update"
    restore_rows,       \* the rows restore_providers selected
    statuses,           \* what get_provider_statuses returned
    \* --- SpecCallback: one OAuth attempt and its redirect listener
    cb_pc,              \* "bound", "listened", "exchanged" or "failed"
    cb_attempt,         \* provider type and the state nonce of the attempt
    cb_queue,           \* the requests arriving at the bound port, in order
    cb_handled,         \* the requests the listener took off the port
    cb_trace,           \* what the listener did, in order
    cb_result,          \* what the listener returned
    cb_exchange,        \* the token exchange: request sent, provider after
    \* --- SpecFlows: two OAuth attempts at once, on the loopback ports
    oa_attempts,        \* per attempt: provider type, position and its locals
    oa_busy             \* loopback ports held by other processes

vars == <<dd_input, dd_calls, dd_once, dd_twice, providers, agg_pc, agg_outcomes,
          agg_result, poller_pc, cold_load, cycle_no, last_fingerprints,
          poll_result, cache, topic, emit_log, write_log,
          cw_pc, cw_calls, cw_prev, cw_events, cw_fault, cw_outcome, cw_loaded,
          fs_calls, fs_result, fs_emitted,
          wp, wp_connected, wp_issued, keyring, clock, wp_op,
          rm_pc, rm_id, rm_before, rm_found, rm_first,
          agg_lock, task_pc, cmd_args, cmd_result, conn_obj, fetch_pass,
          app_cycles, db_providers, vault, status_log, restore_rows, statuses,
          cb_pc, cb_attempt, cb_queue, cb_handled, cb_trace, cb_result,
          cb_exchange, oa_attempts, oa_busy>>

dd_vars == <<dd_input, dd_calls, dd_once, dd_twice>>
agg_vars == <<providers, agg_pc, agg_outcomes, agg_result>>
poll_vars == <<poller_pc, cold_load, cycle_no, last_fingerprints, poll_result,
               cache, topic, emit_log, write_log>>
cw_vars == <<cw_pc, cw_calls, cw_prev, cw_events, cw_fault, cw_outcome, cw_loaded>>
\* the variables of the specifications added after SpecDedup, SpecAgg and Spec
fs_vars == <<fs_calls, fs_result, fs_emitted>>
wp_vars == <<wp, wp_connected, wp_issued, keyring, clock, wp_op>>
rm_vars == <<rm_pc, rm_id, rm_before, rm_found, rm_first>>
\* the variables of the specifications of the command surface
app_vars == <<agg_lock, task_pc, cmd_args, cmd_result, conn_obj, fetch_pass,
              app_cycles, db_providers, vault, status_log, restore_rows, statuses>>
cb_vars == <<cb_pc, cb_attempt, cb_queue, cb_handled, cb_trace, cb_result,
             cb_exchange>>
oa_vars == <<oa_attempts, oa_busy>>
more_vars == <<rm_vars, app_vars, cb_vars, oa_vars>>
ext_vars == <<cw_vars, fs_vars, wp_vars, more_vars>>

\* no cache_events call traced yet
CacheIdle ==
    /\ cw_pc = "idle"
    /\ cw_calls = 0
    /\ cw_prev = <<>>
    /\ cw_events = <<>>
    /\ cw_fault = 0
    /\ cw_outcome = "none"
    /\ cw_loaded = <<>>

\* no force_sync command run yet
SyncIdle ==
    /\ fs_calls = 0
    /\ fs_result = [events |-> <<>>, errors |-> <<>>, calls |-> <<>>]
    /\ fs_emitted = <<>>

\* Option<T>: None, or Some(x)
None == <<>>
Some(x) == <<x>>

\* no operation traced on the provider object yet
NoOp ==
    [ name |-> "none", ok |-> TRUE, error |-> "none", calls |-> <<>>,
      sent |-> FALSE, token_valid |-> FALSE, verdict |-> "none",
      had_refresh |-> FALSE, handled |-> FALSE, response_rt |-> <<>>,
      errors |-> <<>> ]

\* no web provider object traced
ProviderIdle ==
    /\ wp = [type |-> "none"]
    /\ wp_connected = FALSE
    /\ wp_issued = FALSE
    /\ keyring = [type |-> "none"]
    /\ clock = 0
    /\ wp_op = NoOp

\* no remove_provider call traced
RemoveIdle ==
    /\ rm_pc = "start"
    /\ rm_id = "none"
    /\ rm_before = <<>>
    /\ rm_found = <<>>
    /\ rm_first = [events |-> <<>>, errors |-> <<>>, calls |-> <<>>]

\* the tasks that take the aggregator lock
Tasks == {"poller", "force_sync", "connect", "disconnect", "restore",
          "get_statuses"}

\* no command invoked, no task started
AppIdle ==
    /\ agg_lock = "free"
    /\ task_pc = [t \in Tasks |-> "idle"]
    /\ cmd_args = [type |-> "none", path |-> "none"]
    /\ cmd_result = [connect |-> <<>>, disconnect |-> <<>>]
    /\ conn_obj = <<>>
    /\ fetch_pass = [t \in {"poller", "force_sync"} |-> <<>>]
    /\ app_cycles = 0
    /\ db_providers = {}
    /\ vault = {}
    /\ status_log = <<>>
    /\ restore_rows = {}
    /\ statuses = <<>>

\* no OAuth attempt traced
CallbackIdle ==
    /\ cb_pc = "none"
    /\ cb_attempt = [type |-> "none", nonce |-> "none"]
    /\ cb_queue = <<>>
    /\ cb_handled = <<>>
    /\ cb_trace = <<>>
    /\ cb_result = <<>>
    /\ cb_exchange = <<>>

\* no concurrent OAuth attempts traced
FlowsIdle ==
    /\ oa_attempts = <<>>
    /\ oa_busy = {}

MoreIdle == RemoveIdle /\ AppIdle /\ CallbackIdle /\ FlowsIdle

ExtIdle == CacheIdle /\ SyncIdle /\ ProviderIdle /\ MoreIdle

\* the poller before CalendarPoller::start has run, over an empty cache
PollerIdle ==
    /\ poller_pc = "init"
    /\ cold_load = "none"
    /\ cycle_no = 0
    /\ last_fingerprints = {}
    /\ poll_result = [events |-> <<>>, errors |-> <<>>, calls |-> <<>>]
    /\ cache = <<>>
    /\ topic = <<>>
    /\ emit_log = <<>>
    /\ write_log = <<>>

(***************************************************************************)
(* Bounds                                                                  *)
(***************************************************************************)
\* longest list handed to deduplicate_events in SpecDedup
MaxLen == 3
\* most events all providers together return from one fetch_events in SpecAgg
MaxFetched == 3
\* most loop iterations of the poller in Spec
MaxCycles == 3

\* an AggregatorResult with nothing in it (`calls` logs the provider calls)
NoResult == [events |-> <<>>, errors |-> <<>>, calls |-> <<>>]

(***************************************************************************)
(* CalendarEvent (calendar/types.rs).  Timestamps are integers (seconds).  *)
(***************************************************************************)
CalendarEvent(id, title, start_time, end_time, calendar_id, provider_id) ==
    [ id          |-> id,
      title       |-> title,
      start_time  |-> start_time,
      end_time    |-> end_time,
      ignored     |-> FALSE,
      calendar_id |-> calendar_id,
      provider_id |-> provider_id,
      is_all_day  |-> FALSE ]

ProviderIds == {"google-a", "microsoft-b", "apple-calendar"}

\* the calendar a provider files its events under (None for the local provider)
CalendarOf(p) == IF p = "apple-calendar" THEN "none" ELSE "primary"

\* the provider-local event id a provider gives its event
LocalIdOf(p) ==
    CASE p = "google-a" -> "g1"
      [] p = "microsoft-b" -> "m1"
      [] OTHER -> "a1"

\* the two accounts SpecDedup mixes events of
DedupProviders == {"google-a", "apple-calendar"}

Titles == {"Standup", "Lunch"}

\* (start_time, end_time) pairs: same start with different ends, and
\* different starts with the same end
Slots == {<<1, 2>>, <<1, 3>>, <<2, 3>>}

\* the events SpecDedup draws its lists from
DedupUniverse ==
    { CalendarEvent(LocalIdOf(p), t, s[1], s[2], CalendarOf(p), p) :
        p \in DedupProviders, t \in Titles, s \in Slots }

SeqsUpTo(S, n) == UNION { [1..k -> S] : k \in 0..n }

(***************************************************************************)
(* deduplicate_events (calendar/aggregator.rs:82-95)                       *)
(***************************************************************************)
\* the dedup key built inside the retain closure, with end_time left out
DedupKeyNoEnd(event) == <<event.title, event.start_time>>

\* the dedup key built inside the retain closure
DedupKey(event) == <<event.title, event.start_time, event.end_time>>

\* events.retain(..) keeping the LAST occurrence of every key
RECURSIVE RetainLastSeen(_, _)
RetainLastSeen(events, seen) ==
    IF events = <<>> THEN <<>>
    ELSE LET n == Len(events)
             e == events[n]
             front == SubSeq(events, 1, n - 1)
         IN  IF DedupKey(e) \in seen
             THEN RetainLastSeen(front, seen)
             ELSE RetainLastSeen(front, seen \cup {DedupKey(e)}) \o <<e>>

\* events.retain(..) with the predicate inverted: only repeats are kept
RECURSIVE RetainRepeats(_, _)
RetainRepeats(events, seen) ==
    IF events = <<>> THEN <<>>
    ELSE LET e == Head(events)
         IN  IF DedupKey(e) \in seen
             THEN <<e>> \o RetainRepeats(Tail(events), seen)
             ELSE RetainRepeats(Tail(events), seen \cup {DedupKey(e)})

\* events.retain(|event| seen.insert(key)): HashSet::insert is true only the
\* first time a key is inserted, so the first occurrence is kept
RECURSIVE RetainFirstSeen(_, _)
RetainFirstSeen(events, seen) ==
    IF events = <<>> THEN <<>>
    ELSE LET e == Head(events)
         IN  IF DedupKey(e) \in seen
             THEN RetainFirstSeen(Tail(events), seen)
             ELSE <<e>> \o RetainFirstSeen(Tail(events), seen \cup {DedupKey(e)})

\* an insertion that puts the new event BEFORE the events of equal start_time
RECURSIVE InsertBeforeEqual(_, _)
InsertBeforeEqual(sorted, e) ==
    IF sorted = <<>> THEN <<e>>
    ELSE IF Head(sorted).start_time < e.start_time
         THEN <<Head(sorted)>> \o InsertBeforeEqual(Tail(sorted), e)
         ELSE <<e>> \o sorted

\* one step of the stable sort: e goes after every event whose start_time
\* compares Less or Equal
RECURSIVE InsertByStart(_, _)
InsertByStart(sorted, e) ==
    IF sorted = <<>> THEN <<e>>
    ELSE IF Head(sorted).start_time <= e.start_time
         THEN <<Head(sorted)>> \o InsertByStart(Tail(sorted), e)
         ELSE <<e>> \o sorted

\* events.sort_by(|a, b| a.start_time.cmp(&b.start_time)): slice::sort_by is
\* a stable sort
RECURSIVE SortByStart(_)
SortByStart(events) ==
    IF events = <<>> THEN <<>>
    ELSE InsertByStart(SortByStart(SubSeq(events, 1, Len(events) - 1)),
                       events[Len(events)])

deduplicate_events(events) == SortByStart(RetainFirstSeen(events, {}))

(***************************************************************************)
(* SpecDedup                                                               *)
(***************************************************************************)
DedupInit ==
    /\ dd_input \in SeqsUpTo(DedupUniverse, MaxLen)
    /\ dd_calls = 0
    /\ dd_once = <<>>
    /\ dd_twice = <<>>
    /\ providers = <<>>
    /\ agg_pc = "idle"
    /\ agg_outcomes = <<>>
    /\ agg_result = NoResult
    /\ PollerIdle
    /\ ExtIdle

\* first call
DedupFirst ==
    /\ dd_calls = 0
    /\ dd_once' = deduplicate_events(dd_input)
    /\ dd_calls' = 1
    /\ UNCHANGED <<dd_input, dd_twice, agg_vars, poll_vars, ext_vars>>

\* the result handed to deduplicate_events again
DedupSecond ==
    /\ dd_calls = 1
    /\ dd_twice' = deduplicate_events(dd_once)
    /\ dd_calls' = 2
    /\ UNCHANGED <<dd_input, dd_once, agg_vars, poll_vars, ext_vars>>

DedupNext == DedupFirst \/ DedupSecond

SpecDedup == DedupInit /\ [][DedupNext]_vars

(***************************************************************************)
(* CalendarAggregator (calendar/aggregator.rs)                             *)
(***************************************************************************)
\* the CalendarError kinds a provider's fetch_events fails with here
FetchErrors == {"FetchFailed", "NetworkError"}

\* Result<Vec<CalendarEvent>, CalendarError> of one provider's fetch_events
Ok(events) == [ok |-> TRUE, events |-> events, error |-> "none"]
Err(error) == [ok |-> FALSE, events |-> <<>>, error |-> error]

\* (start_time, end_time) pairs of the events providers return in SpecAgg
AggSlots == {<<1, 2>>, <<2, 3>>}

\* the events provider p can return in SpecAgg
AggCatalog(p) ==
    { CalendarEvent(LocalIdOf(p), t, s[1], s[2], CalendarOf(p), p) :
        t \in Titles, s \in AggSlots }

\* what provider p can answer when it may return at most `budget` events
AggAnswers(p, budget) ==
    { Ok(es) : es \in SeqsUpTo(AggCatalog(p), budget) } \cup
    { Err(e) : e \in FetchErrors }

\* every way the providers `provs` can answer one fetch_events, returning at
\* most `budget` events in all
RECURSIVE AggOutcomes(_, _)
AggOutcomes(provs, budget) ==
    IF provs = <<>> THEN {<<>>}
    ELSE UNION { { <<o>> \o rest :
                     rest \in AggOutcomes(Tail(provs), budget - Len(o.events)) } :
                 o \in AggAnswers(Head(provs), budget) }

\* let mut all_events = Vec::new(); let mut errors = Vec::new();
EmptyAcc == [all_events |-> <<>>, errors |-> <<>>, calls |-> <<>>]

\* the loop body of fetch_events: `calls` records the call made
FetchOne(acc, provider_id, outcome) ==
    IF outcome.ok
    THEN [acc EXCEPT !.all_events = @ \o outcome.events,
                     !.calls = Append(@, provider_id)]
    ELSE [acc EXCEPT !.errors = Append(@, <<provider_id, outcome.error>>),
                     !.calls = Append(@, provider_id)]

\* a loop that gives up at the first failing provider
RECURSIVE FetchLoopAbortOnError(_, _, _, _)
FetchLoopAbortOnError(provs, outcomes, i, acc) ==
    IF i > Len(provs) THEN acc
    ELSE IF outcomes[i].ok
         THEN FetchLoopAbortOnError(provs, outcomes, i + 1,
                                    FetchOne(acc, provs[i], outcomes[i]))
         ELSE FetchOne(acc, provs[i], outcomes[i])

\* for provider in &self.providers { match provider.fetch_events(..) .. }
RECURSIVE FetchLoop(_, _, _, _)
FetchLoop(provs, outcomes, i, acc) ==
    IF i > Len(provs) THEN acc
    ELSE FetchLoop(provs, outcomes, i + 1, FetchOne(acc, provs[i], outcomes[i]))

\* CalendarAggregator::fetch_events; `calls` is the log of provider calls
fetch_events(provs, outcomes) ==
    LET acc == FetchLoop(provs, outcomes, 1, EmptyAcc)
    IN  [ events |-> deduplicate_events(acc.all_events),
          errors |-> acc.errors,
          calls  |-> acc.calls ]

\* self.providers.push(provider)
add_provider(provs, p) == Append(provs, p)

\* a retain that stops at the first provider it drops
RECURSIVE RemoveFirstMatch(_, _)
RemoveFirstMatch(provs, provider_id) ==
    IF provs = <<>> THEN <<>>
    ELSE IF Head(provs) = provider_id THEN Tail(provs)
         ELSE <<Head(provs)>> \o RemoveFirstMatch(Tail(provs), provider_id)

\* a retain that drops nothing
RemoveNothing(provs, provider_id) == provs

\* self.providers.retain(|p| p.provider_id() != provider_id)
remove_provider(provs, provider_id) ==
    SelectSeq(provs, LAMBDA p : p # provider_id)

provider_count(provs) == Len(provs)

InRange(provs) == { provs[i] : i \in 1..Len(provs) }

(***************************************************************************)
(* SpecAgg                                                                 *)
(***************************************************************************)
AggInit ==
    /\ providers = <<>>
    /\ agg_pc = "idle"
    /\ agg_outcomes = <<>>
    /\ agg_result = NoResult
    /\ dd_input = <<>>
    /\ dd_calls = 0
    /\ dd_once = <<>>
    /\ dd_twice = <<>>
    /\ PollerIdle
    /\ ExtIdle

\* an account is connected: its provider is pushed
AggAddProvider(p) ==
    /\ agg_pc = "idle"
    /\ p \notin InRange(providers)
    /\ providers' = add_provider(providers, p)
    /\ UNCHANGED <<agg_pc, agg_outcomes, agg_result, dd_vars, poll_vars, ext_vars>>

AggRemoveProvider(provider_id) ==
    /\ agg_pc = "idle"
    /\ providers' = remove_provider(providers, provider_id)
    /\ UNCHANGED <<agg_pc, agg_outcomes, agg_result, dd_vars, poll_vars, ext_vars>>

\* one fetch_events call, whatever each provider answers
AggFetch ==
    /\ agg_pc = "idle"
    /\ \E outcomes \in AggOutcomes(providers, MaxFetched) :
         /\ agg_outcomes' = outcomes
         /\ agg_result' = fetch_events(providers, outcomes)
    /\ agg_pc' = "returned"
    /\ UNCHANGED <<providers, dd_vars, poll_vars, ext_vars>>

\* the caller is done with the AggregatorResult; the aggregator kept nothing
AggConsume ==
    /\ agg_pc = "returned"
    /\ agg_pc' = "idle"
    /\ agg_result' = NoResult
    /\ agg_outcomes' = <<>>
    /\ UNCHANGED <<providers, dd_vars, poll_vars, ext_vars>>

AggNext ==
    \/ \E p \in ProviderIds : AggAddProvider(p)
    \/ \E p \in ProviderIds : AggRemoveProvider(p)
    \/ AggFetch
    \/ AggConsume

SpecAgg == AggInit /\ [][AggNext]_vars

(***************************************************************************)
(* CalendarPoller (calendar/poller.rs)                                     *)
(***************************************************************************)
\* impl From<&CalendarEvent> for EventFingerprint
EventFingerprint(e) ==
    [id |-> e.id, start_time |-> e.start_time, end_time |-> e.end_time]

\* HashMap::insert: the entry of `key`, if any, is replaced
MapInsert(map, key, value) ==
    { kv \in map : kv[1] # key } \cup { <<key, value>> }

\* events.iter().map(|e| (e.id.clone(), EventFingerprint::from(e))).collect():
\* the map is keyed by the event id alone
RECURSIVE FingerprintMap(_)
FingerprintMap(events) ==
    IF events = <<>> THEN {}
    ELSE LET n == Len(events)
         IN  MapInsert(FingerprintMap(SubSeq(events, 1, n - 1)),
                       events[n].id, EventFingerprint(events[n]))

\* cold start that forgets to seed the map
SeedNothing(cached) == {}

\* for event in &cached { last_fingerprints.insert(event.id.clone(), ..) }
SeedFingerprints(cached) == FingerprintMap(cached)

\* the zero-provider branch without the clear()
KeepFingerprints(last) == last

\* last_fingerprints.clear()
ClearFingerprints(last) == {}

\* the all-failed test with the error check inverted
NothingReturned(result) == result.events = <<>> /\ result.errors = <<>>

\* result.events.is_empty() && !result.errors.is_empty()
AllProvidersFailed(result) == result.events = <<>> /\ result.errors # <<>>

\* DateTime<Utc>::to_rfc3339: the instant as text, at offset +00:00
to_rfc3339(t) == <<t, "+00:00">>

\* str::parse::<DateTime<Utc>>: the instant of a well-formed text
ParsesAsDateTime(text) == Len(text) = 2 /\ text[2] = "+00:00"
ParseDateTime(text) == text[1]

\* the values bound to one INSERT INTO calendar_events
EventRow(e) ==
    [ id          |-> e.id,
      provider_id |-> e.provider_id,
      calendar_id |-> e.calendar_id,
      title       |-> e.title,
      start_time  |-> to_rfc3339(e.start_time),
      end_time    |-> to_rfc3339(e.end_time),
      is_all_day  |-> IF e.is_all_day THEN 1 ELSE 0,
      ignored     |-> IF e.ignored THEN 1 ELSE 0 ]

\* the CalendarEvent built from one row by load_cached_events
RowEvent(row) ==
    [ id          |-> row.id,
      title       |-> row.title,
      start_time  |-> ParseDateTime(row.start_time),
      end_time    |-> ParseDateTime(row.end_time),
      ignored     |-> row.ignored # 0,
      calendar_id |-> row.calendar_id,
      provider_id |-> row.provider_id,
      is_all_day  |-> row.is_all_day # 0 ]

\* ORDER BY start_time: rows of equal start_time stay in rowid order
RECURSIVE InsertRowByStart(_, _)
InsertRowByStart(sorted, row) ==
    IF sorted = <<>> THEN <<row>>
    ELSE IF ParseDateTime(Head(sorted).start_time) <= ParseDateTime(row.start_time)
         THEN <<Head(sorted)>> \o InsertRowByStart(Tail(sorted), row)
         ELSE <<row>> \o sorted

RECURSIVE OrderByStartTime(_)
OrderByStartTime(rows) ==
    IF rows = <<>> THEN <<>>
    ELSE InsertRowByStart(OrderByStartTime(SubSeq(rows, 1, Len(rows) - 1)),
                          rows[Len(rows)])

\* load_cached_events when the query succeeds: rows that do not parse are
\* skipped by the filter_map
load_cached_events(rows) ==
    LET parsed == SelectSeq(OrderByStartTime(rows),
                            LAMBDA r : /\ ParsesAsDateTime(r.start_time)
                                       /\ ParsesAsDateTime(r.end_time))
    IN  [i \in 1..Len(parsed) |-> RowEvent(parsed[i])]

\* id TEXT PRIMARY KEY: no two rows of one id
PrimaryKeyHolds(events) ==
    \A i \in 1..Len(events) : \A j \in 1..Len(events) :
        events[i].id = events[j].id => i = j

\* cache_events: DELETE and the INSERTs in one transaction; when the database
\* fails (db_ok false) or an INSERT breaks the primary key, `?` returns before
\* the commit and the dropped transaction rolls back
cache_events(rows, events, db_ok) ==
    IF db_ok /\ PrimaryKeyHolds(events)
    THEN [ok |-> TRUE, rows |-> [i \in 1..Len(events) |-> EventRow(events[i])]]
    ELSE [ok |-> FALSE, rows |-> rows]

\* the accounts that get connected in Spec
PollProviders == {"google-a", "apple-calendar"}

\* event ids are provider-local: both accounts can use "e1"
PollIds(p) == IF p = "google-a" THEN {"e1", "e2"} ELSE {"e1"}

PollSlots(p) == IF p = "google-a" THEN Slots ELSE {<<1, 2>>, <<2, 3>>}

\* the events provider p can return in Spec
PollCatalog(p) ==
    { CalendarEvent(id, "Standup", s[1], s[2], CalendarOf(p), p) :
        id \in PollIds(p), s \in PollSlots(p) }

\* what provider p can answer to one fetch in Spec
PollAnswers(p) ==
    { Ok(<<>>), Err("FetchFailed") } \cup { Ok(<<e>>) : e \in PollCatalog(p) }

\* every way the providers `provs` can answer one poll
RECURSIVE PollOutcomes(_)
PollOutcomes(provs) ==
    IF provs = <<>> THEN {<<>>}
    ELSE { <<o>> \o rest : o \in PollAnswers(Head(provs)),
                           rest \in PollOutcomes(Tail(provs)) }

\* the caches an earlier run of the poller can have left behind
InitialCaches ==
    { cache_events(<<>>, fetch_events(provs, outcomes).events, TRUE).rows :
        provs \in { <<"google-a", "apple-calendar">> },
        outcomes \in PollOutcomes(<<"google-a", "apple-calendar">>) }

(***************************************************************************)
(* Spec                                                                    *)
(***************************************************************************)
Init ==
    /\ providers = <<>>
    /\ agg_pc = "idle"
    /\ agg_outcomes = <<>>
    /\ agg_result = NoResult
    /\ dd_input = <<>>
    /\ dd_calls = 0
    /\ dd_once = <<>>
    /\ dd_twice = <<>>
    /\ poller_pc = "init"
    /\ cold_load = "none"
    /\ cycle_no = 0
    /\ last_fingerprints = {}
    /\ poll_result = NoResult
    /\ cache \in InitialCaches
    /\ topic = <<>>
    /\ emit_log = <<>>
    /\ write_log = <<>>
    /\ ExtIdle

\* the databases tauri-plugin-sql can hold in DbInstances when the poller
\* task starts: run() registers its migrations under "sqlite:morph.db"
DbInstancesAtStart ==
    { {}, {"sqlite:morph.db"}, {"sqlite:morph.db", "sqlite:lighttime.db"} }

\* get_sqlite_pool: instances.get("sqlite:lighttime.db") must be Some
get_sqlite_pool(instances) == "sqlite:lighttime.db" \in instances

\* get_sqlite_pool fails: the task returns before the loop
PollerNoPool ==
    /\ poller_pc = "init"
    /\ \E instances \in DbInstancesAtStart : ~get_sqlite_pool(instances)
    /\ poller_pc' = "exited"
    /\ UNCHANGED <<cold_load, cycle_no, last_fingerprints, poll_result, cache,
                   topic, emit_log, write_log, agg_vars, dd_vars, ext_vars>>

\* cold start, load_cached_events fails: nothing is seeded or emitted
PollerColdStartLoadFailed ==
    /\ poller_pc = "init"
    /\ \E instances \in DbInstancesAtStart : get_sqlite_pool(instances)
    /\ poller_pc' = "sleeping"
    /\ cold_load' = "failed"
    /\ UNCHANGED <<cycle_no, last_fingerprints, poll_result, cache, topic,
                   emit_log, write_log, agg_vars, dd_vars, ext_vars>>

\* cold start, load_cached_events succeeds
PollerColdStart ==
    /\ poller_pc = "init"
    /\ \E instances \in DbInstancesAtStart : get_sqlite_pool(instances)
    /\ poller_pc' = "sleeping"
    /\ cold_load' = "ok"
    /\ LET cached == load_cached_events(cache)
       IN  IF cached # <<>>
           THEN /\ last_fingerprints' = SeedFingerprints(cached)
                /\ emit_log' = <<cached>>
                /\ topic' = <<cached>>
           ELSE UNCHANGED <<last_fingerprints, emit_log, topic>>
    /\ UNCHANGED <<cycle_no, poll_result, cache, write_log, agg_vars, dd_vars, ext_vars>>

\* one loop iteration that finds provider_count() == 0
PollCycleNoProviders ==
    /\ poller_pc = "sleeping"
    /\ cycle_no < MaxCycles
    /\ provider_count(providers) = 0
    /\ cycle_no' = cycle_no + 1
    /\ poll_result' = NoResult
    /\ write_log' = <<>>
    /\ IF last_fingerprints # {}
       THEN /\ last_fingerprints' = ClearFingerprints(last_fingerprints)
            /\ emit_log' = << <<>> >>
            /\ topic' = << <<>> >>
       ELSE /\ emit_log' = <<>>
            /\ UNCHANGED <<last_fingerprints, topic>>
    /\ UNCHANGED <<poller_pc, cold_load, cache, agg_vars, dd_vars, ext_vars>>

\* one loop iteration that fetches: classify, then emit and cache on change
PollCycleFetch ==
    /\ poller_pc = "sleeping"
    /\ cycle_no < MaxCycles
    /\ provider_count(providers) # 0
    /\ cycle_no' = cycle_no + 1
    /\ \E outcomes \in PollOutcomes(providers) :
         LET result == fetch_events(providers, outcomes)
             new_fingerprints == FingerprintMap(result.events)
         IN  /\ poll_result' = result
             /\ IF AllProvidersFailed(result)
                THEN /\ emit_log' = <<>>
                     /\ write_log' = <<>>
                     /\ UNCHANGED <<last_fingerprints, cache, topic>>
                ELSE IF new_fingerprints # last_fingerprints
                THEN /\ emit_log' = <<result.events>>
                     /\ topic' = <<result.events>>
                     /\ write_log' = <<result.events>>
                     /\ \E db_ok \in BOOLEAN :
                            cache' = cache_events(cache, result.events, db_ok).rows
                     /\ last_fingerprints' = new_fingerprints
                ELSE /\ emit_log' = <<>>
                     /\ write_log' = <<>>
                     /\ UNCHANGED <<last_fingerprints, cache, topic>>
    /\ UNCHANGED <<poller_pc, cold_load, agg_vars, dd_vars, ext_vars>>

Next ==
    \/ \E p \in PollProviders : AggAddProvider(p)
    \/ \E p \in PollProviders : AggRemoveProvider(p)
    \/ PollerNoPool
    \/ PollerColdStartLoadFailed
    \/ PollerColdStart
    \/ PollCycleNoProviders
    \/ PollCycleFetch

Spec == Init /\ [][Next]_vars

(***************************************************************************)
(* SpecCache: cache_events statement by statement, then load_cached_events *)
(***************************************************************************)
\* pool.begin(): a transaction over the committed rows
TxBegin(rows) == [committed |-> rows, working |-> rows]

\* a statement run on the pool itself: its effect is committed at once
PoolExecute(tx, rows) == [committed |-> rows, working |-> rows]

\* .execute(&mut *tx): the statement acts inside the transaction only
TxExecute(tx, rows) == [tx EXCEPT !.working = rows]

\* a DELETE that removes nothing
DeleteNone(rows) == rows

\* DELETE FROM calendar_events
DeleteAll(rows) == <<>>

\* tx.commit()
TxCommit(tx) == [committed |-> tx.working, working |-> tx.working]

\* `?` returns before the commit, or the process dies: the transaction is
\* dropped and rolls back
TxRollback(tx) == [committed |-> tx.committed, working |-> tx.committed]

\* id TEXT PRIMARY KEY: an INSERT of an id already in the table is refused
InsertAllowed(rows, row) == \A i \in 1..Len(rows) : rows[i].id # row.id

\* for event in events { INSERT ... }: statement i + 1 inserts events[i]; the
\* loop ends early when a statement is refused or is the one that breaks
RECURSIVE TxInserts(_, _, _, _)
TxInserts(tx, events, i, fault) ==
    IF i > Len(events) THEN [tx |-> tx, ok |-> TRUE]
    ELSE IF fault = i + 1 \/ ~InsertAllowed(tx.working, EventRow(events[i]))
    THEN [tx |-> tx, ok |-> FALSE]
    ELSE TxInserts(TxExecute(tx, Append(tx.working, EventRow(events[i]))),
                   events, i + 1, fault)

\* the statement number of the COMMIT: 1 is the DELETE, 2.. the INSERTs
CommitStatement(events) == Len(events) + 2

\* cache_events, statement by statement.  `fault` is the statement at which
\* the database errs or the process dies (0: nowhere).  The result is
\* whether Ok(()) was returned and the rows committed afterwards.
cache_events_tx(rows, events, fault) ==
    LET begun == TxBegin(rows)
    IN  IF fault = 1
        THEN [ok |-> FALSE, rows |-> TxRollback(begun).committed]
        ELSE LET ins == TxInserts(TxExecute(begun, DeleteAll(begun.working)),
                                   events, 1, fault)
             IN  IF ins.ok /\ fault # CommitStatement(events)
                 THEN [ok |-> TRUE, rows |-> TxCommit(ins.tx).committed]
                 ELSE [ok |-> FALSE, rows |-> TxRollback(ins.tx).committed]

\* longest list handed to cache_events in SpecCache
MaxCached == 3
\* most cache_events calls in one behaviour of SpecCache
MaxWrites == 2

\* events of two accounts; the provider-local id "e1" is used by both
CacheUniverse ==
    { CalendarEvent("e1", "Standup", 1, 2, "primary", "google-a"),
      [CalendarEvent("e2", "Offsite", 1, 3, "primary", "google-a")
          EXCEPT !.is_all_day = TRUE],
      CalendarEvent("e1", "Lunch", 2, 3, "none", "apple-calendar"),
      [CalendarEvent("e3", "Review", 0, 1, "none", "apple-calendar")
          EXCEPT !.ignored = TRUE] }

\* the lists the aggregator can return over CacheUniverse
CacheLists ==
    { deduplicate_events(s) : s \in SeqsUpTo(CacheUniverse, MaxCached) }

CacheInit ==
    /\ providers = <<>>
    /\ agg_pc = "idle"
    /\ agg_outcomes = <<>>
    /\ agg_result = NoResult
    /\ dd_input = <<>>
    /\ dd_calls = 0
    /\ dd_once = <<>>
    /\ dd_twice = <<>>
    /\ PollerIdle
    /\ CacheIdle
    /\ SyncIdle
    /\ MoreIdle
    /\ ProviderIdle

\* one cache_events call, undisturbed or broken at any statement
CacheWrite ==
    /\ cw_pc = "idle"
    /\ cw_calls < MaxWrites
    /\ \E events \in CacheLists :
       \E fault \in 0..CommitStatement(events) :
         LET r == cache_events_tx(cache, events, fault)
         IN  /\ cw_prev' = cache
             /\ cw_events' = events
             /\ cw_fault' = fault
             /\ cache' = r.rows
             /\ IF fault = 0
                THEN cw_outcome' = IF r.ok THEN "committed" ELSE "rejected"
                ELSE cw_outcome' \in {"error", "crashed"}
    /\ cw_pc' = "written"
    /\ cw_calls' = cw_calls + 1
    /\ UNCHANGED <<cw_loaded, poller_pc, cold_load, cycle_no, last_fingerprints,
                   poll_result, topic, emit_log, write_log, agg_vars, dd_vars,
                   fs_vars, wp_vars, more_vars>>

\* the next load_cached_events (the cold start after a crash included)
CacheLoad ==
    /\ cw_pc = "written"
    /\ cw_loaded' = load_cached_events(cache)
    /\ cw_pc' = "idle"
    /\ UNCHANGED <<cw_calls, cw_prev, cw_events, cw_fault, cw_outcome,
                   poll_vars, agg_vars, dd_vars, fs_vars, wp_vars, more_vars>>

CacheNext == CacheWrite \/ CacheLoad

SpecCache == CacheInit /\ [][CacheNext]_vars

(***************************************************************************)
(* SpecSync: the poller together with the force_sync command (lib.rs)      *)
(***************************************************************************)
\* most force_sync commands in one behaviour of SpecSync
MaxSyncs == 1

\* the accounts connected when the behaviour starts, in the order they were
\* added; they stay connected
SyncProviders ==
    { <<>>, <<"google-a">>, <<"apple-calendar">>,
      <<"google-a", "apple-calendar">>, <<"apple-calendar", "google-a">> }

\* nothing cached yet, the poller about to start
SyncInit ==
    /\ providers \in SyncProviders
    /\ agg_pc = "idle"
    /\ agg_outcomes = <<>>
    /\ agg_result = NoResult
    /\ dd_input = <<>>
    /\ dd_calls = 0
    /\ dd_once = <<>>
    /\ dd_twice = <<>>
    /\ PollerIdle
    /\ ExtIdle

\* what provider p can answer to the fetch of a force_sync in SpecSync
SyncAnswers(p) ==
    { Ok(<<>>), Err("FetchFailed"),
      Ok(<<CalendarEvent("e1", "Standup", 1, 2, CalendarOf(p), p)>>) }

RECURSIVE SyncOutcomes(_)
SyncOutcomes(provs) ==
    IF provs = <<>> THEN {<<>>}
    ELSE { <<o>> \o rest : o \in SyncAnswers(Head(provs)),
                           rest \in SyncOutcomes(Tail(provs)) }

\* app.emit("calendar-events-update", &result.events): whatever the result
EmitResult(result) == <<result.events>>

\* the force_sync command: one fetch_events under the aggregator lock, the
\* errors are logged, the events are emitted
force_sync ==
    /\ fs_calls < MaxSyncs
    /\ agg_pc = "idle"
    /\ fs_calls' = fs_calls + 1
    /\ \E outcomes \in SyncOutcomes(providers) :
         LET result == fetch_events(providers, outcomes)
             emitted == EmitResult(result)
         IN  /\ fs_result' = result
             /\ fs_emitted' = emitted
             /\ topic' = IF emitted = <<>> THEN topic ELSE emitted
    /\ UNCHANGED <<poller_pc, cold_load, cycle_no, last_fingerprints,
                   poll_result, cache, emit_log, write_log, agg_vars, dd_vars,
                   cw_vars, wp_vars, more_vars>>

SyncNext ==
    \/ PollerNoPool
    \/ PollerColdStartLoadFailed
    \/ PollerColdStart
    \/ PollCycleNoProviders
    \/ PollCycleFetch
    \/ force_sync

SpecSync == SyncInit /\ [][SyncNext]_vars

(***************************************************************************)
(* Web providers (calendar/google.rs, calendar/microsoft.rs)               *)
(* Text built with format! is the sequence of its pieces.                  *)
(***************************************************************************)
\* Duration::seconds(60): the margin before expiry
TokenMargin == 60

\* format!("{prefix}{x}")
Format(prefix, x) == <<prefix, x>>

\* GoogleCalendarProvider::new / MicrosoftCalendarProvider::new (the second
\* has no provider_id_cache field)
new(type) ==
    [ type              |-> type,
      client_id         |-> IF type = "google" THEN "google-client-id"
                            ELSE "PLACEHOLDER_AZURE_CLIENT_ID",
      account_email     |-> None,
      access_token      |-> None,
      refresh_token     |-> None,
      token_expiry      |-> None,
      provider_id_cache |-> IF type = "google" THEN Format("google-", "unknown")
                            ELSE None ]

\* GoogleCalendarProvider::token_is_valid
token_is_valid(p, now) ==
    /\ p.access_token # None
    /\ p.token_expiry # None
    /\ now < p.token_expiry[1] - TokenMargin

\* MicrosoftCalendarProvider::is_token_expired
is_token_expired(p, now) ==
    IF p.token_expiry # None
    THEN now + TokenMargin >= p.token_expiry[1]
    ELSE TRUE

\* the validity check of the provider's type
TokenValid(p, now) ==
    IF p.type = "google" THEN token_is_valid(p, now) ELSE ~is_token_expired(p, now)

\* provider_id(): Google returns its cache, Microsoft the email itself or
\* the literal "microsoft-unknown"
provider_id(p) ==
    IF p.type = "google" THEN p.provider_id_cache
    ELSE IF p.account_email # None THEN <<p.account_email[1]>>
    ELSE Format("microsoft-", "unknown")

\* an empty credential store
EmptyKeyring ==
    [ access_token |-> None, refresh_token |-> None, token_expiry |-> None,
      account_email |-> None ]

\* the keyring writes of persist_tokens (Google) and store_tokens
\* (Microsoft), in order: only fields that are Some are written
StoreWrites(p) ==
    IF p.type = "google"
    THEN (IF p.access_token # None
          THEN << <<"access_token", p.access_token[1]>> >> ELSE <<>>)
         \o (IF p.refresh_token # None
             THEN << <<"refresh_token", p.refresh_token[1]>> >> ELSE <<>>)
         \o (IF p.token_expiry # None
             THEN << <<"token_expiry", to_rfc3339(p.token_expiry[1])>> >> ELSE <<>>)
    ELSE (IF p.refresh_token # None
          THEN << <<"refresh_token", p.refresh_token[1]>> >> ELSE <<>>)
         \o (IF p.account_email # None
             THEN << <<"account_email", p.account_email[1]>> >> ELSE <<>>)

\* set_password for each write; write number `fault` fails (0: none) and `?`
\* returns with the earlier writes done
RECURSIVE StoreAll(_, _, _, _)
StoreAll(ks, writes, i, fault) ==
    IF i > Len(writes) THEN [ok |-> TRUE, error |-> "none", keyring |-> ks]
    ELSE IF fault = i THEN [ok |-> FALSE, error |-> "ProviderError", keyring |-> ks]
    ELSE StoreAll([ks EXCEPT ![writes[i][1]] = Some(writes[i][2])],
                  writes, i + 1, fault)

\* GoogleCalendarProvider::persist_tokens
persist_tokens(p, ks, fault) ==
    IF p.account_email = None
    THEN [ok |-> FALSE, error |-> "NotAuthenticated", keyring |-> ks]
    ELSE StoreAll(ks, StoreWrites(p), 1, fault)

\* MicrosoftCalendarProvider::store_tokens
store_tokens(p, ks, fault) == StoreAll(ks, StoreWrites(p), 1, fault)

\* a refresh token that is overwritten by whatever the response carries
ReplaceAlways(held, carried) == carried

\* if let Some(rt) = token_resp.refresh_token { self.refresh_token = Some(rt) }
\* and token_resp.refresh_token.or(self.refresh_token.take())
KeepOrReplace(held, carried) == IF carried # None THEN carried ELSE held

\* the token fields after a token response: Google's expires_in is an i64,
\* Microsoft's an Option<u64> that is mapped
ApplyTokens(p, resp, now) ==
    [p EXCEPT !.access_token = Some(resp.access_token),
              !.refresh_token = KeepOrReplace(@, resp.refresh_token),
              !.token_expiry = IF resp.expires_in # None
                               THEN Some(now + resp.expires_in[1])
                               ELSE None]

\* the result of an operation on the object
OpResult(p, ks, ok, error, sent, handled) ==
    [ p |-> p, keyring |-> ks, ok |-> ok, error |-> error, sent |-> sent,
      handled |-> handled ]

\* a refresh that discards the access token before it sends the request
RefreshDiscardingFirst(p, ks, verdict, resp, now, fault) ==
    LET cleared == [p EXCEPT !.access_token = None, !.token_expiry = None]
    IN  IF p.refresh_token = None
        THEN OpResult(p, ks, FALSE, "NotAuthenticated", FALSE, FALSE)
        ELSE IF verdict \in {"network", "rejected", "garbled"}
        THEN OpResult(cleared, ks, FALSE, "TokenRefreshFailed", TRUE, FALSE)
        ELSE LET q == ApplyTokens(p, resp, now)
                 st == IF p.type = "google" THEN persist_tokens(q, ks, fault)
                       ELSE store_tokens(q, ks, fault)
             IN  OpResult(q, st.keyring, st.ok, st.error, TRUE, TRUE)

\* CalendarProvider::refresh_token.  `verdict` is what the token endpoint
\* does with the request, `resp` its token response, `fault` the failing
\* keyring write.
refresh_token(p, ks, verdict, resp, now, fault) ==
    IF p.refresh_token = None
    THEN OpResult(p, ks, FALSE,
                  IF p.type = "google" THEN "TokenRefreshFailed"
                  ELSE "NotAuthenticated", FALSE, FALSE)
    ELSE IF verdict = "network"
    THEN OpResult(p, ks, FALSE,
                  IF p.type = "google" THEN "NetworkError"
                  ELSE "TokenRefreshFailed", TRUE, FALSE)
    ELSE IF verdict = "rejected"
    THEN OpResult(p, ks, FALSE, "TokenRefreshFailed", TRUE, FALSE)
    ELSE IF verdict = "garbled"
    THEN OpResult(p, ks, FALSE,
                  IF p.type = "google" THEN "DeserializationError"
                  ELSE "TokenRefreshFailed", TRUE, FALSE)
    ELSE LET q == ApplyTokens(p, resp, now)
             st == IF p.type = "google" THEN persist_tokens(q, ks, fault)
                   ELSE store_tokens(q, ks, fault)
         IN  OpResult(q, st.keyring, st.ok, st.error, TRUE, TRUE)

\* CalendarProvider::fetch_events of a web provider: the Result, and whether
\* a request was sent.  `verdict` is what the calendar API does with it.
provider_fetch_events(p, verdict, events) ==
    IF p.access_token = None
    THEN [result |-> Err("NotAuthenticated"), sent |-> FALSE]
    ELSE [ sent |-> TRUE,
           result |->
             CASE verdict = "network" -> Err("NetworkError")
               [] verdict = "unauthorized" ->
                    IF p.type = "google" THEN Err("TokenRefreshFailed")
                    ELSE Err("FetchFailed")
               [] verdict = "error" -> Err("FetchFailed")
               [] verdict = "garbled" -> Err("DeserializationError")
               [] OTHER -> Ok(events) ]

\* authenticate(): `flow` is how the browser flow and the code exchange end,
\* `email` the identity the upstream reports (Google: userinfo, Microsoft:
\* the id_token), `fault` the failing keyring write
authenticate(p, ks, flow, resp, email, now, fault) ==
    IF p.type = "google"
    THEN IF flow = "no_code"
         THEN OpResult(p, ks, FALSE, "AuthenticationFailed", FALSE, FALSE)
         ELSE IF flow = "network"
         THEN OpResult(p, ks, FALSE, "NetworkError", TRUE, FALSE)
         ELSE IF flow = "rejected"
         THEN OpResult(p, ks, FALSE, "AuthenticationFailed", TRUE, FALSE)
         ELSE LET q == ApplyTokens(p, resp, now)
              IN  IF email = None
                  THEN OpResult(q, ks, FALSE, "AuthenticationFailed", TRUE, TRUE)
                  ELSE LET r == [q EXCEPT !.account_email = email,
                                          !.provider_id_cache =
                                              Format("google-", email[1])]
                           st == persist_tokens(r, ks, fault)
                       IN  OpResult(r, st.keyring, st.ok, st.error, TRUE, TRUE)
    ELSE IF p.client_id = "PLACEHOLDER_AZURE_CLIENT_ID" \/ flow = "no_code"
         THEN OpResult(p, ks, FALSE, "AuthenticationFailed", FALSE, FALSE)
         ELSE IF flow \in {"network", "rejected"}
         THEN OpResult(p, ks, FALSE, "AuthenticationFailed", TRUE, FALSE)
         ELSE LET q == ApplyTokens(p, resp, now)
                  r == [q EXCEPT !.account_email =
                                     IF email # None THEN email ELSE @]
                  st == store_tokens(r, ks, fault)
              IN  OpResult(r, st.keyring, st.ok, st.error, TRUE, TRUE)

\* a restore that rebuilds the object without resolving its identity
RestoreUnresolved(type, ks, email) ==
    IF ks.refresh_token = None
    THEN [p |-> new(type), added |-> FALSE]
    ELSE [ added |-> TRUE,
           p |-> [new(type) EXCEPT
                    !.access_token = ks.access_token,
                    !.refresh_token = ks.refresh_token] ]

\* GoogleCalendarProvider::try_restore_session(email) and, for Microsoft,
\* new() + load_stored_tokens() as restore_providers runs them: the object,
\* and whether it is added to the aggregator
restore_session(type, ks, email) ==
    IF ks.refresh_token = None
    THEN [p |-> new(type), added |-> FALSE]
    ELSE IF type = "google"
    THEN [ added |-> TRUE,
           p |-> [new(type) EXCEPT
                    !.account_email = Some(email),
                    !.access_token = ks.access_token,
                    !.refresh_token = ks.refresh_token,
                    !.token_expiry =
                        IF ks.token_expiry # None
                           /\ ParsesAsDateTime(ks.token_expiry[1])
                        THEN Some(ParseDateTime(ks.token_expiry[1]))
                        ELSE None,
                    !.provider_id_cache = Format("google-", email)] ]
    ELSE [ added |-> TRUE,
           p |-> [new(type) EXCEPT
                    !.refresh_token = ks.refresh_token,
                    !.account_email = ks.account_email] ]

(***************************************************************************)
(* SpecProvider: the operations on one web provider object                 *)
(***************************************************************************)
\* clock advances in one behaviour of SpecProvider
MaxTicks == 2
\* seconds per clock advance: the lifetime of a long-lived access token
TickSeconds == 3600

ProviderTypes == {"google", "microsoft"}

\* the account the upstream identifies
AccountEmail == "user@example.com"

\* what the token endpoint can answer: with or without a refresh token,
\* short- or long-lived; Microsoft's expires_in is optional
TokenResponses(type) ==
    { [ access_token |-> "at", refresh_token |-> rt, expires_in |-> e ] :
        rt \in {None, Some("rt1"), Some("rt2")},
        e \in {Some(30), Some(3600)}
              \cup (IF type = "microsoft" THEN {None} ELSE {}) }

\* what an earlier session can have left in the credential store
InitialKeyrings(type) ==
    IF type = "google"
    THEN { EmptyKeyring,
           [EmptyKeyring EXCEPT !.refresh_token = Some("rt1")],
           [EmptyKeyring EXCEPT !.access_token = Some("at"),
                                !.refresh_token = Some("rt1"),
                                !.token_expiry = Some(to_rfc3339(3600))] }
    ELSE { EmptyKeyring,
           [EmptyKeyring EXCEPT !.refresh_token = Some("rt1")],
           [EmptyKeyring EXCEPT !.refresh_token = Some("rt1"),
                                !.account_email = Some(AccountEmail)] }

\* the client ids a build can carry: Google's is fixed, MS_CLIENT_ID is a
\* placeholder until an Azure registration is configured
ClientIds(type) ==
    IF type = "google" THEN {new(type).client_id}
    ELSE {new(type).client_id, "configured-client-id"}

\* a new object of the same type and build
Fresh(p) == [new(p.type) EXCEPT !.client_id = p.client_id]

\* the events a web provider returns in SpecProvider
ProviderEvents(p) ==
    { <<>>, <<CalendarEvent("e1", "Standup", 1, 2, "primary", provider_id(p))>> }

ProviderInit ==
    /\ providers = <<>>
    /\ agg_pc = "idle"
    /\ agg_outcomes = <<>>
    /\ agg_result = NoResult
    /\ dd_input = <<>>
    /\ dd_calls = 0
    /\ dd_once = <<>>
    /\ dd_twice = <<>>
    /\ PollerIdle
    /\ CacheIdle
    /\ SyncIdle
    /\ MoreIdle
    /\ \E type \in ProviderTypes :
         /\ wp \in { [new(type) EXCEPT !.client_id = c] : c \in ClientIds(type) }
         /\ keyring \in InitialKeyrings(type)
    /\ wp_connected = FALSE
    /\ wp_issued = FALSE
    /\ clock = 0
    /\ wp_op = NoOp

\* connect_provider for a web provider: new(), authenticate(), and on Ok
\* add_provider; on Err the object is dropped
connect_provider ==
    /\ ~wp_connected
    /\ \E flow \in {"no_code", "network", "rejected", "ok"},
          resp \in TokenResponses(wp.type),
          email \in {None, Some(AccountEmail)},
          fault \in 0..3 :
         LET r == authenticate(Fresh(wp), keyring, flow, resp, email, clock, fault)
         IN  /\ wp' = IF r.ok THEN r.p ELSE Fresh(wp)
             /\ wp_connected' = r.ok
             /\ wp_issued' = (r.ok /\ r.p.refresh_token # None)
             /\ keyring' = r.keyring
             /\ wp_op' = [NoOp EXCEPT !.name = "authenticate",
                                      !.ok = r.ok,
                                      !.error = r.error,
                                      !.sent = r.sent,
                                      !.handled = r.handled,
                                      !.response_rt = IF r.handled
                                                      THEN resp.refresh_token
                                                      ELSE None]
    /\ UNCHANGED <<clock, agg_vars, dd_vars, poll_vars, cw_vars, fs_vars, more_vars>>

\* restore_providers after a restart: the object is rebuilt from the
\* credential store if the account has a row in calendar_providers
restore_providers ==
    /\ \E row \in BOOLEAN :
         LET r == restore_session(wp.type, keyring, AccountEmail)
             restored == row /\ r.added
         IN  /\ wp' = IF restored
                      THEN [r.p EXCEPT !.client_id = wp.client_id]
                      ELSE Fresh(wp)
             /\ wp_connected' = restored
             /\ wp_issued' = restored
             /\ wp_op' = [NoOp EXCEPT !.name = "restore", !.ok = restored]
    /\ UNCHANGED <<keyring, clock, agg_vars, dd_vars, poll_vars, cw_vars, fs_vars, more_vars>>

\* one background fetch of the aggregator over the connected object:
\* CalendarAggregator::fetch_events calls provider.fetch_events and files
\* the error, if any.  The calendar API does not accept an expired token.
ProviderCycle ==
    /\ wp_connected
    /\ \E verdict \in {"ok", "unauthorized", "error", "network", "garbled"},
          events \in ProviderEvents(wp) :
         /\ (verdict = "ok" /\ wp.token_expiry # None) => clock < wp.token_expiry[1]
         /\ LET f == provider_fetch_events(wp, verdict, events)
                agg == fetch_events(<<provider_id(wp)>>, <<f.result>>)
            IN  wp_op' = [NoOp EXCEPT
                            !.name = "cycle",
                            !.ok = f.result.ok,
                            !.error = f.result.error,
                            !.calls = [i \in 1..Len(agg.calls) |-> "fetch_events"],
                            !.sent = f.sent,
                            !.token_valid = TokenValid(wp, clock),
                            !.verdict = IF f.sent THEN verdict ELSE "none",
                            !.had_refresh = (wp.refresh_token # None),
                            !.errors = agg.errors]
    /\ UNCHANGED <<wp, wp_connected, wp_issued, keyring, clock,
                   agg_vars, dd_vars, poll_vars, cw_vars, fs_vars, more_vars>>

\* refresh_token() applied to the object, whatever its state
ProviderRefresh ==
    /\ \E verdict \in {"ok", "rejected", "network", "garbled"},
          resp \in TokenResponses(wp.type),
          fault \in 0..3 :
         LET r == refresh_token(wp, keyring, verdict, resp, clock, fault)
         IN  /\ wp' = r.p
             /\ keyring' = r.keyring
             /\ wp_issued' = (wp_issued \/ r.p.refresh_token # None)
             /\ wp_op' = [NoOp EXCEPT
                            !.name = "refresh_token",
                            !.ok = r.ok,
                            !.error = r.error,
                            !.calls = <<"refresh_token">>,
                            !.sent = r.sent,
                            !.verdict = IF r.sent THEN verdict ELSE "none",
                            !.had_refresh = (wp.refresh_token # None),
                            !.handled = r.handled,
                            !.response_rt = IF r.handled
                                            THEN resp.refresh_token
                                            ELSE None]
    /\ UNCHANGED <<wp_connected, clock, agg_vars, dd_vars, poll_vars, cw_vars,
                   fs_vars, more_vars>>

\* time passes
ProviderTick ==
    /\ clock < MaxTicks * TickSeconds
    /\ clock' = clock + TickSeconds
    /\ UNCHANGED <<wp, wp_connected, wp_issued, keyring, wp_op,
                   agg_vars, dd_vars, poll_vars, cw_vars, fs_vars, more_vars>>

ProviderNext ==
    \/ connect_provider
    \/ restore_providers
    \/ ProviderCycle
    \/ ProviderRefresh
    \/ ProviderTick

SpecProvider == ProviderInit /\ [][ProviderNext]_vars

(***************************************************************************)
(* SpecToken: the token validity check on arbitrary token fields           *)
(***************************************************************************)
\* Utc::now() when the check is made
TokenClocks == {1000, 5000}

\* token_expiry, relative to now
TokenOffsets == {-3600, 30, 59, 60, 61, 3600}

TokenInit ==
    /\ providers = <<>>
    /\ agg_pc = "idle"
    /\ agg_outcomes = <<>>
    /\ agg_result = NoResult
    /\ dd_input = <<>>
    /\ dd_calls = 0
    /\ dd_once = <<>>
    /\ dd_twice = <<>>
    /\ PollerIdle
    /\ CacheIdle
    /\ SyncIdle
    /\ MoreIdle
    /\ clock \in TokenClocks
    /\ \E type \in ProviderTypes :
         wp \in { [new(type) EXCEPT !.access_token = a, !.token_expiry = e] :
                    a \in {None, Some("at")},
                    e \in {None} \cup { Some(clock + d) : d \in TokenOffsets } }
    /\ wp_connected = FALSE
    /\ wp_issued = FALSE
    /\ keyring = EmptyKeyring
    /\ wp_op = NoOp

\* token_is_valid() / !is_token_expired() applied to the object
TokenCheck ==
    /\ wp_op.name = "none"
    /\ wp_op' = [NoOp EXCEPT !.name = "token_check",
                             !.token_valid = TokenValid(wp, clock)]
    /\ UNCHANGED <<wp, wp_connected, wp_issued, keyring, clock,
                   agg_vars, dd_vars, poll_vars, cw_vars, fs_vars, more_vars>>

TokenNext == TokenCheck

SpecToken == TokenInit /\ [][TokenNext]_vars

(***************************************************************************)
(* Properties of the aggregator.  The definitions below state what is      *)
(* claimed, independently of how the operators above compute it.           *)
(***************************************************************************)
\* when two events are the same logical event
LogicalKey(e) == <<e.title, e.start_time, e.end_time>>

KeysOf(events) == { LogicalKey(events[i]) : i \in 1..Len(events) }

\* the positions of `events` holding an event of logical key k
PositionsOf(events, k) == { i \in 1..Len(events) : LogicalKey(events[i]) = k }

Least(S) == CHOOSE x \in S : \A y \in S : x <= y

\* the position of the first event of logical key k
FirstPosition(events, k) == Least(PositionsOf(events, k))

\* the indices of a sequence, in order
Indices(seq) == [i \in 1..Len(seq) |-> i]

\* the events of the succeeding providers, in provider order
RECURSIVE ConcatOk(_)
ConcatOk(outcomes) ==
    IF outcomes = <<>> THEN <<>>
    ELSE (IF Head(outcomes).ok THEN Head(outcomes).events ELSE <<>>)
         \o ConcatOk(Tail(outcomes))

\* the (provider_id, error) pairs of the failing providers, in provider order
ExpectedErrors(provs, outcomes) ==
    LET failing == SelectSeq(Indices(provs), LAMBDA i : ~outcomes[i].ok)
    IN  [k \in 1..Len(failing) |->
            <<provs[failing[k]], outcomes[failing[k]].error>>]

\* the providers that succeeded and returned an event of logical key k
Holders(outcomes, k) ==
    { i \in 1..Len(outcomes) : outcomes[i].ok /\ k \in KeysOf(outcomes[i].events) }

\* C1: fetch_events calls every provider exactly once in insertion order; each
\* failing provider adds exactly one (provider_id, error) entry and stops no
\* later provider; every event of a succeeding provider is present in `events`
\* up to deduplication; with zero providers both lists are empty.
C1_FetchIsolatesFailures ==
    agg_pc = "returned" =>
        /\ agg_result.calls = providers
        /\ agg_result.errors = ExpectedErrors(providers, agg_outcomes)
        /\ \A i \in 1..Len(providers) :
               agg_outcomes[i].ok =>
                   KeysOf(agg_outcomes[i].events) \subseteq KeysOf(agg_result.events)
        /\ \A j \in 1..Len(agg_result.events) :
               \E i \in 1..Len(providers) :
                   /\ agg_outcomes[i].ok
                   /\ \E k \in 1..Len(agg_outcomes[i].events) :
                          agg_outcomes[i].events[k] = agg_result.events[j]
        /\ (providers = <<>> =>
               agg_result.events = <<>> /\ agg_result.errors = <<>>)

\* C1 witness: a failing provider is followed by one that succeeds with events,
\* which is followed by another failing one
C1_Witness ==
    /\ agg_pc = "returned"
    /\ Len(providers) = 3
    /\ ~agg_outcomes[1].ok
    /\ agg_outcomes[2].ok /\ Len(agg_outcomes[2].events) = 2
    /\ ~agg_outcomes[3].ok
    /\ Len(agg_result.errors) = 2
    /\ Len(agg_result.events) = 2

\* C2 as stated: for every pair of providers A before B that both return an
\* event of the same (title, start_time, end_time), the merged result holds
\* exactly one event of that key and it is A's copy (A's id and provider_id).
C2_AnyEarlierProviderWins ==
    agg_pc = "returned" =>
        \A a \in 1..Len(providers) : \A b \in 1..Len(providers) :
            (a < b /\ agg_outcomes[a].ok /\ agg_outcomes[b].ok) =>
                \A k \in KeysOf(agg_outcomes[a].events) \cap
                         KeysOf(agg_outcomes[b].events) :
                    /\ Cardinality(PositionsOf(agg_result.events, k)) = 1
                    /\ LET kept == agg_result.events[FirstPosition(agg_result.events, k)]
                           copy == agg_outcomes[a].events[
                                       FirstPosition(agg_outcomes[a].events, k)]
                       IN  kept.provider_id = providers[a] /\ kept.id = copy.id

\* C2 amended: for every pair of providers A before B that both return an
\* event of the same key, the merged result holds exactly one event of that
\* key and it is the copy of the earliest-added provider that returned the key
\* (A's copy when no provider added before A returned it).
C2_EarliestProviderWins ==
    agg_pc = "returned" =>
        \A a \in 1..Len(providers) : \A b \in 1..Len(providers) :
            (a < b /\ agg_outcomes[a].ok /\ agg_outcomes[b].ok) =>
                \A k \in KeysOf(agg_outcomes[a].events) \cap
                         KeysOf(agg_outcomes[b].events) :
                    /\ Cardinality(PositionsOf(agg_result.events, k)) = 1
                    /\ LET kept == agg_result.events[FirstPosition(agg_result.events, k)]
                           first == Least(Holders(agg_outcomes, k))
                           copy == agg_outcomes[first].events[
                                       FirstPosition(agg_outcomes[first].events, k)]
                       IN  /\ kept = copy
                           /\ kept.provider_id = providers[first]
                           /\ first <= a

\* C2 witness: the second and third provider return the same logical event,
\* the first does not, and the merged result holds the second provider's copy
C2_Witness ==
    /\ agg_pc = "returned"
    /\ Len(providers) = 3
    /\ agg_outcomes[1].ok /\ agg_outcomes[2].ok /\ agg_outcomes[3].ok
    /\ \E k \in KeysOf(agg_outcomes[2].events) \cap KeysOf(agg_outcomes[3].events) :
           /\ k \notin KeysOf(agg_outcomes[1].events)
           /\ \E j \in 1..Len(agg_result.events) :
                  /\ LogicalKey(agg_result.events[j]) = k
                  /\ agg_result.events[j].provider_id = providers[2]

\* C3: `events` is exactly the stable sort by start_time of the deduplicated
\* concatenation: it holds the first copy of every key and nothing else, start
\* times never decrease, and events of equal start_time keep the order their
\* first copies had in the concatenation (provider order, then the provider's
\* own order).
C3_StableSortOfDedup ==
    agg_pc = "returned" =>
        LET all == ConcatOk(agg_outcomes)
            out == agg_result.events
        IN  /\ KeysOf(out) = KeysOf(all)
            /\ Len(out) = Cardinality(KeysOf(all))
            /\ \A j \in 1..Len(out) :
                   out[j] = all[FirstPosition(all, LogicalKey(out[j]))]
            /\ \A j \in 1..(Len(out) - 1) :
                   out[j].start_time <= out[j + 1].start_time
            /\ \A i \in 1..Len(out) : \A j \in 1..Len(out) :
                   (i < j /\ out[i].start_time = out[j].start_time) =>
                       FirstPosition(all, LogicalKey(out[i]))
                           < FirstPosition(all, LogicalKey(out[j]))

\* C3 witness: one provider returned a later event before an earlier one, and
\* the result holds two events of equal start_time after an earlier event
C3_Witness ==
    /\ agg_pc = "returned"
    /\ \E i \in 1..Len(providers) :
           /\ agg_outcomes[i].ok
           /\ Len(agg_outcomes[i].events) >= 2
           /\ agg_outcomes[i].events[1].start_time
                  > agg_outcomes[i].events[2].start_time
    /\ Len(agg_result.events) = 3
    /\ agg_result.events[1].start_time < agg_result.events[2].start_time
    /\ agg_result.events[2].start_time = agg_result.events[3].start_time

\* C4: deduplicating twice yields the same events in the same order as
\* deduplicating once.
C4_DedupIdempotent ==
    dd_calls = 2 => dd_twice = dd_once

\* C4 witness: the first pass dropped a duplicate and kept two events of equal
\* start_time, and the second pass has run
C4_Witness ==
    /\ dd_calls = 2
    /\ Len(dd_input) = 3
    /\ Len(dd_once) = 2
    /\ dd_once[1].start_time = dd_once[2].start_time

\* C5: deduplication merges two events iff their (title, start_time, end_time)
\* are equal: no two output events share a key, every key of the input is kept
\* exactly once, events differing in start_time or end_time are all kept
\* whatever their id, provider_id and calendar_id, and every output event is an
\* unmodified input event.
C5_MergeIffSameKey ==
    dd_calls >= 1 =>
        /\ \A i \in 1..Len(dd_once) : \A j \in 1..Len(dd_once) :
               LogicalKey(dd_once[i]) = LogicalKey(dd_once[j]) => i = j
        /\ \A k \in KeysOf(dd_input) :
               Cardinality(PositionsOf(dd_once, k)) = 1
        /\ Len(dd_once) = Cardinality(KeysOf(dd_input))
        /\ \A j \in 1..Len(dd_once) :
               \E i \in 1..Len(dd_input) : dd_input[i] = dd_once[j]

\* C5 witness: the input holds two events of one key with different ids and
\* an event of the same title and start_time with another end_time; the
\* output keeps two events
C5_Witness ==
    /\ dd_calls >= 1
    /\ Len(dd_input) = 3
    /\ LogicalKey(dd_input[1]) = LogicalKey(dd_input[2])
    /\ dd_input[1].id # dd_input[2].id
    /\ dd_input[3].title = dd_input[1].title
    /\ dd_input[3].start_time = dd_input[1].start_time
    /\ dd_input[3].end_time # dd_input[1].end_time
    /\ Len(dd_once) = 2

(***************************************************************************)
(* Properties of the poller                                                *)
(***************************************************************************)
\* the (id, start_time, end_time) fingerprints of an event list, one per event
FingerprintsOf(events) ==
    { <<events[i].id, events[i].start_time, events[i].end_time>> :
        i \in 1..Len(events) }

\* the event set of the latest publish (empty when nothing was published)
LastPublished == IF topic = <<>> THEN <<>> ELSE topic[1]

\* the (id, start_time, end_time) of the cached rows
CachedFingerprints ==
    { <<cache[i].id, cache[i].start_time[1], cache[i].end_time[1]>> :
        i \in 1..Len(cache) }

\* C6: a poll cycle whose aggregator result has no events and at least one
\* error publishes nothing, writes no cache and leaves the retained
\* fingerprint map, the cache and the last published set as they were.
C6_AllFailedIsNoOp ==
    [][ ( /\ cycle_no' = cycle_no + 1
          /\ poll_result'.events = <<>>
          /\ poll_result'.errors # <<>> )
        => ( /\ emit_log' = <<>>
             /\ write_log' = <<>>
             /\ cache' = cache
             /\ last_fingerprints' = last_fingerprints
             /\ topic' = topic ) ]_vars

\* C6 witness: both providers failed in a cycle run while a non-empty set was
\* published and retained
C6_Witness ==
    /\ cycle_no >= 1
    /\ poll_result.events = <<>>
    /\ Len(poll_result.errors) = 2
    /\ emit_log = <<>>
    /\ last_fingerprints # {}
    /\ topic # <<>>
    /\ LastPublished # <<>>

\* C7: in a cycle that fetched and was not skipped, if the new event set has
\* the same (id, start_time, end_time) fingerprints as the last published set
\* there is no publish and no cache write; if an event was added, removed or
\* changed id, start_time or end_time there is exactly one publish of the new
\* set and one cache write.
C7_ChangeDetection ==
    [][ ( /\ cycle_no' = cycle_no + 1
          /\ poll_result'.calls # <<>>
          /\ ~(poll_result'.events = <<>> /\ poll_result'.errors # <<>>) )
        => IF FingerprintsOf(poll_result'.events) = FingerprintsOf(LastPublished)
           THEN emit_log' = <<>> /\ write_log' = <<>>
           ELSE /\ emit_log' = <<poll_result'.events>>
                /\ write_log' = <<poll_result'.events>> ]_vars

\* C8: in a cycle where a provider failed and the merged result holds an
\* event, a result whose fingerprints differ from the last published set is
\* published and written to the cache, replacing the previous set.
C8_PartialResultReplaces ==
    [][ ( /\ cycle_no' = cycle_no + 1
          /\ poll_result'.errors # <<>>
          /\ poll_result'.events # <<>>
          /\ FingerprintsOf(poll_result'.events) # FingerprintsOf(LastPublished) )
        => ( /\ topic' = <<poll_result'.events>>
             /\ emit_log' = <<poll_result'.events>>
             /\ write_log' = <<poll_result'.events>> ) ]_vars

\* C9: a cycle that finds zero providers attempts no fetch; it publishes the
\* empty list exactly once if the retained fingerprint map is non-empty, and
\* nothing otherwise; a zero-provider cycle that follows a zero-provider
\* cycle publishes nothing.
C9_ZeroProviderTransition ==
    [][ (cycle_no' = cycle_no + 1 /\ providers = <<>>)
        => ( /\ poll_result'.calls = <<>>
             /\ IF last_fingerprints # {}
                THEN /\ emit_log' = << <<>> >>
                     /\ topic' = << <<>> >>
                ELSE /\ emit_log' = <<>>
                     /\ topic' = topic
             /\ last_fingerprints' = {}
             /\ (cycle_no >= 1 /\ poll_result.calls = <<>>) => emit_log' = <<>> ) ]_vars

\* C9 witness: a non-empty set was published at cold start, the first cycle
\* found no provider and published the empty list, the second found none
\* either and published nothing
C9_Witness ==
    /\ cycle_no = 2
    /\ providers = <<>>
    /\ cold_load = "ok"
    /\ cache # <<>>
    /\ poll_result.calls = <<>>
    /\ topic = << <<>> >>
    /\ emit_log = <<>>
    /\ last_fingerprints = {}

\* C10: cold start happens before any fetch; a non-empty loaded cache is
\* published once and seeds the fingerprint map, so that a first fetch with
\* the same fingerprints publishes nothing; an empty cache or a failed load
\* publishes nothing.
C10_ColdStart ==
    [][ /\ (poller_pc = "init" /\ poller_pc' = "sleeping")
           => /\ cycle_no' = 0 /\ poll_result'.calls = <<>>
              /\ IF cold_load' = "ok" /\ cache # <<>>
                 THEN /\ Len(emit_log') = 1
                      /\ topic' = emit_log'
                      /\ Len(emit_log'[1]) = Len(cache)
                      /\ FingerprintsOf(emit_log'[1]) = CachedFingerprints
                      /\ last_fingerprints' =
                             { <<f[1], [id |-> f[1], start_time |-> f[2],
                                        end_time |-> f[3]]>> :
                                 f \in CachedFingerprints }
                 ELSE /\ emit_log' = <<>>
                      /\ topic' = <<>>
                      /\ last_fingerprints' = {}
        /\ ( /\ cycle_no = 0 /\ cycle_no' = 1
             /\ cold_load = "ok" /\ cache # <<>>
             /\ poll_result'.calls # <<>>
             /\ ~(poll_result'.events = <<>> /\ poll_result'.errors # <<>>)
             /\ FingerprintsOf(poll_result'.events) = FingerprintsOf(LastPublished) )
           => (emit_log' = <<>> /\ topic' = topic /\ write_log' = <<>>) ]_vars

\* C10 witness: the cache was published at cold start and the first fetch
\* returned events with the same fingerprints, so nothing more was published
C10_Witness ==
    /\ cycle_no = 1
    /\ cold_load = "ok"
    /\ LastPublished # <<>>
    /\ Len(LastPublished) = Len(cache)
    /\ poll_result.events # <<>>
    /\ FingerprintsOf(poll_result.events) = FingerprintsOf(LastPublished)
    /\ emit_log = <<>>
    /\ last_fingerprints # {}

\* C21: the poller task never reaches a terminal state: whatever its startup
\* steps return, it goes on to the loop and stays in it.
C21_PollerNeverExits == poller_pc # "exited"

(***************************************************************************)
(* Properties of the durable cache (SpecCache)                             *)
(***************************************************************************)
\* the rows a complete write of `events` leaves in the table
RowsOf(events) == [i \in 1..Len(events) |-> EventRow(events[i])]

\* how often e occurs in the list
Occurrences(events, e) == Cardinality({ i \in 1..Len(events) : events[i] = e })

\* the two lists hold the same events, each as often
SameEvents(a, b) ==
    /\ Len(a) = Len(b)
    /\ \A i \in 1..Len(a) : Occurrences(a, a[i]) = Occurrences(b, a[i])

OrderedByStart(events) ==
    \A i \in 1..Len(events) : \A j \in 1..Len(events) :
        i < j => events[i].start_time <= events[j].start_time

\* C11: whatever statement of cache_events the database errs or the process
\* dies at, the committed table is the complete previous set or the complete
\* new set, the next load_cached_events returns one of the two, and only an
\* undisturbed call that returns Ok leaves the new set.
C11_CacheWriteAtomic ==
    cw_calls > 0 =>
        /\ cache \in {cw_prev, RowsOf(cw_events)}
        /\ cw_outcome # "committed" => cache = cw_prev
        /\ cache = cache_events(cw_prev, cw_events, cw_fault = 0).rows
        /\ cw_pc = "idle" =>
             cw_loaded \in { load_cached_events(cw_prev),
                             load_cached_events(RowsOf(cw_events)) }

\* a call over a non-empty cache dies after at least one INSERT has run, and
\* the next load returns the previous set
C11_Witness ==
    /\ cw_pc = "idle"
    /\ cw_outcome = "crashed"
    /\ cw_fault > 2
    /\ cw_fault < CommitStatement(cw_events)
    /\ cw_prev # <<>>
    /\ RowsOf(cw_events) # cw_prev
    /\ cw_loaded = load_cached_events(cw_prev)
    /\ cw_loaded # <<>>

\* C12: after a cache_events call that succeeded, whatever an earlier call
\* left in the table, load_cached_events returns exactly the events of the
\* latest call (none when that list is empty).
C12_CacheReplaces ==
    (cw_calls > 0 /\ cw_outcome = "committed" /\ cw_pc = "idle") =>
        /\ SameEvents(cw_loaded, cw_events)
        /\ \A i \in 1..Len(cw_prev) :
              (\A j \in 1..Len(cw_events) : EventRow(cw_events[j]) # cw_prev[i])
                  => \A k \in 1..Len(cw_loaded) : EventRow(cw_loaded[k]) # cw_prev[i]

\* V1 was written, then a V2 that keeps one event of V1 and drops another
C12_Witness ==
    /\ cw_calls = 2
    /\ cw_outcome = "committed"
    /\ cw_pc = "idle"
    /\ cw_loaded # <<>>
    /\ \E i \in 1..Len(cw_prev) : \E j \in 1..Len(cw_events) :
           cw_prev[i] = EventRow(cw_events[j])
    /\ \E i \in 1..Len(cw_prev) : \A j \in 1..Len(cw_events) :
           cw_prev[i] # EventRow(cw_events[j])

\* C13: an undisturbed cache_events of a list the aggregator returned,
\* followed by load_cached_events, yields the same events with all fields
\* equal, ordered by start_time.
C13_CacheRoundTrip ==
    (cw_calls > 0 /\ cw_fault = 0 /\ cw_pc = "idle") =>
        /\ SameEvents(cw_loaded, cw_events)
        /\ OrderedByStart(cw_loaded)
(***************************************************************************)
(* Properties of force_sync (SpecSync)                                     *)
(***************************************************************************)
\* C14: a force_sync in which every attempted provider fails emits nothing
\* and leaves the published set as it was.
C14_ForceSyncKeepsLastGood ==
    [][ (fs_calls' = fs_calls + 1 /\ AllProvidersFailed(fs_result'))
            => (fs_emitted' = <<>> /\ topic' = topic) ]_vars
(***************************************************************************)
(* Properties of the web providers (SpecProvider, SpecToken)               *)
(***************************************************************************)
\* C15: a background fetch that is rejected as unauthorized is followed by
\* exactly one refresh_token() and, if that succeeds, exactly one retry of
\* the fetch: never a second refresh or a third fetch.
C15_UnauthorizedRetry ==
    (wp_op.name = "cycle" /\ wp_op.verdict = "unauthorized") =>
        /\ Len(wp_op.calls) \in {2, 3}
        /\ wp_op.calls[1] = "fetch_events"
        /\ wp_op.calls[2] = "refresh_token"
        /\ Len(wp_op.calls) = 3 => wp_op.calls[3] = "fetch_events"

\* C16: every fetch request a background cycle sends carries a token that
\* passed the validity check at that moment (a restored provider included).
C16_NoFetchWithInvalidToken ==
    (wp_op.name = "cycle" /\ wp_op.sent) => wp_op.token_valid

\* C17: for both provider types and every combination of token fields, the
\* token counts as valid exactly when an access token is present, an expiry
\* is recorded and now < expiry - 60 s.
C17_TokenValidityBoundary ==
    wp_op.name = "token_check" =>
        (wp_op.token_valid <=>
            /\ wp.access_token # None
            /\ wp.token_expiry # None
            /\ clock < wp.token_expiry[1] - 60)

\* C18: refresh_token() without a refresh credential fails with
\* TokenRefreshFailed and sends no request; a rejected exchange fails with
\* TokenRefreshFailed too.
C18_RefreshWithoutCredential ==
    wp_op.name = "refresh_token" =>
        /\ ~wp_op.had_refresh =>
              (~wp_op.ok /\ wp_op.error = "TokenRefreshFailed" /\ ~wp_op.sent)
        /\ wp_op.verdict = "rejected" =>
              (~wp_op.ok /\ wp_op.error = "TokenRefreshFailed")

TypePrefix(type) == IF type = "google" THEN "google-" ELSE "microsoft-"

\* C20: provider_id() is "T-unknown" while no account identity is known and
\* "T-<account identifier>" once it is.
C20_ProviderIdPrefixed ==
    provider_id(wp) =
        IF wp.account_email = None
        THEN Format(TypePrefix(wp.type), "unknown")
        ELSE Format(TypePrefix(wp.type), wp.account_email[1])
(***************************************************************************)
(* SpecRemove: remove_provider between two fetch_events calls              *)
(* (calendar/aggregator.rs:29-69), over every provider list add_provider   *)
(* can build, the same id pushed twice included.                           *)
(***************************************************************************)
\* most providers the aggregator holds in SpecRemove
MaxProviders == 3

\* CalendarAggregator::new
new_aggregator == <<>>

\* the aggregator after add_provider was called for each object of `objects`
RECURSIVE Connected(_)
Connected(objects) ==
    IF objects = <<>> THEN new_aggregator
    ELSE add_provider(Connected(SubSeq(objects, 1, Len(objects) - 1)),
                      objects[Len(objects)])

\* what remove_provider returns: self.providers.len() != len_before
remove_provider_returns(provs, pid) ==
    Len(remove_provider(provs, pid)) # Len(provs)

\* what provider p answers one fetch_events with in SpecRemove
RemoveAnswers(p) ==
    { Ok(<<>>),
      Ok(<<CalendarEvent(LocalIdOf(p), "Standup", 1, 2, CalendarOf(p), p)>>),
      Err("FetchFailed") }

RECURSIVE RemoveOutcomes(_)
RemoveOutcomes(provs) ==
    IF provs = <<>> THEN {<<>>}
    ELSE { <<o>> \o rest : o \in RemoveAnswers(Head(provs)),
                           rest \in RemoveOutcomes(Tail(provs)) }

RemoveInit ==
    /\ providers \in { Connected(objects) :
                         objects \in SeqsUpTo(ProviderIds, MaxProviders) }
    /\ agg_pc = "idle"
    /\ agg_outcomes = <<>>
    /\ agg_result = NoResult
    /\ dd_input = <<>>
    /\ dd_calls = 0
    /\ dd_once = <<>>
    /\ dd_twice = <<>>
    /\ PollerIdle
    /\ ExtIdle

\* the fetch_events before the removal
RemoveFetchFirst ==
    /\ rm_pc = "start"
    /\ \E outcomes \in RemoveOutcomes(providers) :
         /\ agg_outcomes' = outcomes
         /\ agg_result' = fetch_events(providers, outcomes)
         /\ rm_first' = fetch_events(providers, outcomes)
    /\ rm_pc' = "fetched"
    /\ UNCHANGED <<providers, agg_pc, rm_id, rm_before, rm_found, dd_vars,
                   poll_vars, cw_vars, fs_vars, wp_vars,
                   app_vars, cb_vars, oa_vars>>

\* remove_provider(provider_id)
RemoveCall(pid) ==
    /\ rm_pc = "fetched"
    /\ rm_id' = pid
    /\ rm_before' = <<providers>>
    /\ rm_found' = <<remove_provider_returns(providers, pid)>>
    /\ providers' = remove_provider(providers, pid)
    /\ rm_pc' = "removed"
    /\ UNCHANGED <<agg_pc, agg_outcomes, agg_result, rm_first, dd_vars,
                   poll_vars, cw_vars, fs_vars, wp_vars,
                   app_vars, cb_vars, oa_vars>>

\* remove_provider called again with the same pid
RemoveCallAgain ==
    /\ rm_pc = "removed"
    /\ rm_before' = Append(rm_before, providers)
    /\ rm_found' = Append(rm_found, remove_provider_returns(providers, rm_id))
    /\ providers' = remove_provider(providers, rm_id)
    /\ rm_pc' = "again"
    /\ UNCHANGED <<agg_pc, agg_outcomes, agg_result, rm_id, rm_first, dd_vars,
                   poll_vars, cw_vars, fs_vars, wp_vars,
                   app_vars, cb_vars, oa_vars>>

\* the fetch_events after the removal
RemoveFetchSecond ==
    /\ rm_pc \in {"removed", "again"}
    /\ \E outcomes \in RemoveOutcomes(providers) :
         /\ agg_outcomes' = outcomes
         /\ agg_result' = fetch_events(providers, outcomes)
    /\ rm_pc' = "refetched"
    /\ UNCHANGED <<providers, agg_pc, rm_id, rm_before, rm_found, rm_first,
                   dd_vars, poll_vars, cw_vars, fs_vars, wp_vars,
                   app_vars, cb_vars, oa_vars>>

RemoveNext ==
    \/ RemoveFetchFirst
    \/ \E pid \in ProviderIds : RemoveCall(pid)
    \/ RemoveCallAgain
    \/ RemoveFetchSecond

SpecRemove == RemoveInit /\ [][RemoveNext]_vars

(***************************************************************************)
(* Properties of remove_provider (SpecRemove)                              *)
(***************************************************************************)
\* the providers of `provs` whose id is a or b, in order
Among(provs, a, b) == SelectSeq(provs, LAMBDA p : p \in {a, b})

\* the list the last remove_provider call found
LastBefore == rm_before[Len(rm_before)]

\* C22: remove_provider(id) returns true exactly when a provider with that id
\* was registered, leaves none with that id, keeps every other provider in
\* its relative order, and called again returns false and changes nothing.
C22_RemoveProviderIdempotent ==
    rm_pc \in {"removed", "again"} =>
        /\ rm_found[1] = (rm_id \in InRange(rm_before[1]))
        /\ rm_id \notin InRange(providers)
        /\ InRange(providers) = InRange(rm_before[1]) \ {rm_id}
        /\ \A a, b \in ProviderIds \ {rm_id} :
               Among(providers, a, b) = Among(rm_before[1], a, b)
        /\ rm_pc = "again" =>
               /\ rm_found[2] = FALSE
               /\ providers = rm_before[2]

\* the same id registered twice, removed, and removed again
C22_Witness ==
    /\ rm_pc = "again"
    /\ rm_found = <<TRUE, FALSE>>
    /\ Len(rm_before[1]) = 3
    /\ Len(providers) = 1

\* the objects of `provs` other than those with the id given
RECURSIVE Remaining(_, _)
Remaining(provs, pid) ==
    IF provs = <<>> THEN <<>>
    ELSE IF Head(provs) = pid THEN Remaining(Tail(provs), pid)
         ELSE <<Head(provs)>> \o Remaining(Tail(provs), pid)

\* C23: the aggregator keeps nothing between fetches: after a fetch in which
\* a provider failed, removing it and fetching again returns what a fresh
\* aggregator holding only the remaining providers returns, and no error if
\* those all succeed.
C23_RefetchAsFresh ==
    (/\ rm_pc = "refetched"
     /\ \E e \in InRange(rm_first.errors) : e[1] = rm_id) =>
        /\ agg_result =
             fetch_events(Connected(Remaining(rm_before[1], rm_id)), agg_outcomes)
        /\ (\A i \in 1..Len(agg_outcomes) : agg_outcomes[i].ok) =>
               agg_result.errors = <<>>

\* the failing provider was removed and the others answered the next fetch
C23_Witness ==
    /\ rm_pc = "refetched"
    /\ \E e \in InRange(rm_first.errors) : e[1] = rm_id
    /\ rm_first.events # <<>>
    /\ agg_result.errors = <<>>
    /\ agg_result.events = rm_first.events
    /\ Len(agg_result.calls) = 2


(***************************************************************************)
(* SpecApp: the command surface (lib.rs) — connect_provider,               *)
(* disconnect_provider, get_provider_statuses, force_sync — with           *)
(* restore_providers and the poller loop, as concurrent tasks sharing      *)
(* Arc<tokio::sync::Mutex<CalendarAggregator>>.  A task's steps are cut    *)
(* at its .await points.  The steps of the macOS build are modelled.       *)
(***************************************************************************)
\* poller iterations in one behaviour of SpecApp
MaxAppCycles == 1

AppTypes == {"google", "microsoft", "apple"}

\* how connect_provider is invoked: as a command, or by the listener of
\* the "connect-provider" event
ConnectPaths == {"command", "event"}

\* KEYRING_SERVICE of google.rs and of microsoft.rs
KeyringService(type) ==
    IF type = "google" THEN "com.lighttime.google-oauth"
    ELSE "com.morph.microsoft-oauth"

\* the key a provider files a field under: keyring_key(email, field) is
\* format!("{email}:{field}") in google.rs; microsoft.rs uses the bare field
keyring_key(type, email, field) ==
    IF type = "google" THEN <<email, ":", field>> ELSE <<field>>

KeyringFields == {"access_token", "refresh_token", "token_expiry", "account_email"}

\* the entry of the vault under (service, key), if any
VaultGet(entries, service, key) ==
    IF \E e \in entries : e.service = service /\ e.key = key
    THEN Some((CHOOSE e \in entries : e.service = service /\ e.key = key).value)
    ELSE None

\* the credential store of one account as its provider reads it
KeyringOf(entries, type, email) ==
    [ f \in KeyringFields |->
        VaultGet(entries, KeyringService(type), keyring_key(type, email, f)) ]

\* entry.set_password for every field the provider has stored in `ks`
VaultStore(entries, type, email, ks) ==
    LET written == { f \in KeyringFields : ks[f] # None }
        keys == { keyring_key(type, email, f) : f \in written }
    IN  { e \in entries : ~(e.service = KeyringService(type) /\ e.key \in keys) }
        \cup { [ service |-> KeyringService(type),
                 key |-> keyring_key(type, email, f),
                 value |-> ks[f][1] ] : f \in written }

\* clear_keyring_entries(service): delete_credential for the four keys
clear_keyring_entries(entries, service) ==
    { e \in entries :
        ~(e.service = service
          /\ e.key \in { <<"refresh_token">>, <<"access_token">>,
                         <<"token_expiry">>, <<"account_email">> }) }

\* the service name disconnect_provider clears for a provider type
DisconnectService(type) ==
    IF type = "google" THEN "com.morph.google-oauth"
    ELSE "com.morph.microsoft-oauth"

\* AppleCalendarProvider::provider_id
AppleProviderId == <<"apple-calendar">>

\* provider_type() of the object behind a provider_id
ProviderTypeOf(id) ==
    IF id = AppleProviderId THEN "apple"
    ELSE IF id[1] = "google-" THEN "google"
    ELSE "microsoft"

\* account_name() of the object behind a provider_id
AccountNameOf(id) ==
    IF id = AppleProviderId THEN "Apple Calendar"
    ELSE IF id[1] = "google-" THEN id[2]
    ELSE IF Len(id) = 1 THEN id[1]
    ELSE "Microsoft Account"

\* str::starts_with on a text kept as its pieces
starts_with(text, prefix) == text[1] = prefix

\* remove_providers_by_prefix(prefix)
remove_providers_by_prefix(provs, prefix) ==
    SelectSeq(provs, LAMBDA id : ~starts_with(id, prefix))

\* remove_providers_by_type(type)
remove_providers_by_type(provs, type) ==
    SelectSeq(provs, LAMBDA id : ProviderTypeOf(id) # type)

\* connected_providers(): (type, account_name) pairs
connected_providers(provs) ==
    [ i \in 1..Len(provs) |-> <<ProviderTypeOf(provs[i]), AccountNameOf(provs[i])>> ]

\* the removals disconnect_provider makes under the lock
DisconnectRemovals(provs, type) ==
    CASE type = "google" -> remove_providers_by_prefix(provs, "google-")
      [] type = "microsoft" ->
           remove_providers_by_type(
               remove_providers_by_prefix(provs, "microsoft-"), "microsoft")
      [] OTHER -> remove_provider(provs, AppleProviderId)

\* ProviderStatusPayload
StatusPayload(provider, connected, account_name, error) ==
    [ provider |-> provider, connected |-> connected,
      account_name |-> account_name, error |-> error ]

\* INSERT OR REPLACE INTO calendar_providers: id is "{type}-{account_name}"
save_provider_to_db(rows, type, account_name, db_ok) ==
    IF db_ok
    THEN rows \cup {[provider_type |-> type, account_name |-> account_name]}
    ELSE rows

\* DELETE FROM calendar_providers WHERE provider_type = ?1
remove_provider_from_db(rows, type, db_ok) ==
    IF db_ok THEN { r \in rows : r.provider_type # type } ELSE rows

\* the token response of the authorisation server in SpecApp
AppTokenResponse ==
    [access_token |-> "at", refresh_token |-> Some("rt1"), expires_in |-> Some(3600)]

\* authenticate() of a new object of the type: the Result, the provider_id
\* of the object and the keyring it leaves
AppAuthenticate(type, entries, flow, email) ==
    IF type = "apple"
    THEN [ ok |-> flow = "ok",
           error |-> IF flow = "ok" THEN "none" ELSE "AuthenticationFailed",
           id |-> AppleProviderId, vault |-> entries ]
    ELSE LET p == [new(type) EXCEPT !.client_id =
                       IF type = "microsoft" THEN "configured-client-id" ELSE @]
             r == authenticate(p, KeyringOf(entries, type, AccountEmail), flow,
                               AppTokenResponse, email, 0, 0)
         IN  [ ok |-> r.ok, error |-> r.error, id |-> provider_id(r.p),
               vault |-> VaultStore(entries, type, AccountEmail, r.keyring) ]

\* the object restore_providers adds for a row, if it adds one
RestoreRow(row, entries) ==
    IF row.provider_type = "apple" THEN <<AppleProviderId>>
    ELSE LET r == restore_session(row.provider_type,
                      KeyringOf(entries, row.provider_type, row.account_name),
                      row.account_name)
         IN  IF r.added THEN <<provider_id(r.p)>> ELSE <<>>

\* the rows in a fixed order: the order of the SELECT
RECURSIVE RowsInOrder(_)
RowsInOrder(rows) ==
    IF rows = {} THEN <<>>
    ELSE LET r == CHOOSE x \in rows : TRUE
         IN  <<r>> \o RowsInOrder(rows \ {r})

RECURSIVE RestoreAll(_, _, _)
RestoreAll(provs, rows, entries) ==
    IF rows = <<>> THEN provs
    ELSE RestoreAll(provs \o RestoreRow(Head(rows), entries), Tail(rows), entries)

\* what an earlier session that connected `type` left behind
EarlierSession(type) ==
    LET r == AppAuthenticate(type, {}, "ok", Some(AccountEmail))
    IN  [ rows |-> {[provider_type |-> type, account_name |-> AccountNameOf(r.id)]},
          vault |-> r.vault ]

AppInit ==
    /\ providers = <<>>
    /\ agg_pc = "idle"
    /\ agg_outcomes = <<>>
    /\ agg_result = NoResult
    /\ dd_input = <<>>
    /\ dd_calls = 0
    /\ dd_once = <<>>
    /\ dd_twice = <<>>
    /\ PollerIdle
    /\ CacheIdle
    /\ SyncIdle
    /\ ProviderIdle
    /\ RemoveIdle
    /\ CallbackIdle
    /\ FlowsIdle
    /\ agg_lock = "free"
    /\ task_pc = [t \in Tasks |-> "idle"]
    /\ cmd_args \in [type : AppTypes, path : ConnectPaths]
    /\ cmd_result = [connect |-> <<>>, disconnect |-> <<>>]
    /\ conn_obj = <<>>
    /\ fetch_pass = [t \in {"poller", "force_sync"} |-> <<>>]
    /\ app_cycles = 0
    /\ \E earlier \in SUBSET {cmd_args.type} :
         /\ db_providers = UNION { EarlierSession(t).rows : t \in earlier }
         /\ vault = UNION { EarlierSession(t).vault : t \in earlier }
    /\ status_log = <<>>
    /\ restore_rows = {}
    /\ statuses = <<>>

\* a lock() that returns without waiting for the holder
AcquireNoWait(task) == agg_lock' = task

\* aggregator.lock().await
Acquire(task) ==
    /\ agg_lock = "free"
    /\ agg_lock' = task

\* the MutexGuard is dropped
Release(task) == agg_lock' = IF agg_lock = task THEN "free" ELSE agg_lock

SetPc(task, pc) == task_pc' = [task_pc EXCEPT ![task] = pc]

\* --- the tasks that fetch: the poller loop and force_sync
\* the poller wakes up, locks, and finds no provider: `continue`
PollerWakeNoProviders ==
    /\ task_pc["poller"] = "idle"
    /\ app_cycles < MaxAppCycles
    /\ agg_lock = "free"
    /\ provider_count(providers) = 0
    /\ app_cycles' = app_cycles + 1
    /\ UNCHANGED <<providers, agg_lock, task_pc, cmd_args, cmd_result, conn_obj,
                   fetch_pass, db_providers, vault, status_log, restore_rows,
                   statuses, agg_pc, agg_outcomes, agg_result, dd_vars,
                   poll_vars, cw_vars, fs_vars, wp_vars, rm_vars, cb_vars, oa_vars>>

\* the poller wakes up, locks, and enters fetch_events
PollerWake ==
    /\ task_pc["poller"] = "idle"
    /\ app_cycles < MaxAppCycles
    /\ Acquire("poller")
    /\ provider_count(providers) # 0
    /\ SetPc("poller", "fetching")
    /\ fetch_pass' = [fetch_pass EXCEPT !["poller"] = <<>>]
    /\ UNCHANGED <<providers, cmd_args, cmd_result, conn_obj, app_cycles,
                   db_providers, vault, status_log, restore_rows, statuses,
                   agg_pc, agg_outcomes, agg_result, dd_vars, poll_vars,
                   cw_vars, fs_vars, wp_vars, rm_vars, cb_vars, oa_vars>>

\* force_sync locks and enters fetch_events
ForceSyncBegin ==
    /\ task_pc["force_sync"] = "idle"
    /\ Acquire("force_sync")
    /\ SetPc("force_sync", "fetching")
    /\ fetch_pass' = [fetch_pass EXCEPT !["force_sync"] = <<>>]
    /\ UNCHANGED <<providers, cmd_args, cmd_result, conn_obj, app_cycles,
                   db_providers, vault, status_log, restore_rows, statuses,
                   agg_pc, agg_outcomes, agg_result, dd_vars, poll_vars,
                   cw_vars, fs_vars, wp_vars, rm_vars, cb_vars, oa_vars>>

\* one turn of `for provider in &self.providers`: provider.fetch_events().await
FetchCall(task) ==
    /\ task_pc[task] = "fetching"
    /\ Len(fetch_pass[task]) < Len(providers)
    /\ fetch_pass' = [fetch_pass EXCEPT ![task] = Append(@, providers)]
    /\ UNCHANGED <<providers, agg_lock, task_pc, cmd_args, cmd_result, conn_obj,
                   app_cycles, db_providers, vault, status_log, restore_rows,
                   statuses, agg_pc, agg_outcomes, agg_result, dd_vars,
                   poll_vars, cw_vars, fs_vars, wp_vars, rm_vars, cb_vars, oa_vars>>

\* fetch_events returns and the guard is dropped
FetchReturn(task) ==
    /\ task_pc[task] = "fetching"
    /\ Len(fetch_pass[task]) >= Len(providers)
    /\ Release(task)
    /\ SetPc(task, IF task = "poller" THEN "idle" ELSE "done")
    /\ app_cycles' = IF task = "poller" THEN app_cycles + 1 ELSE app_cycles
    /\ UNCHANGED <<providers, cmd_args, cmd_result, conn_obj, fetch_pass,
                   db_providers, vault, status_log, restore_rows, statuses,
                   agg_pc, agg_outcomes, agg_result, dd_vars, poll_vars,
                   cw_vars, fs_vars, wp_vars, rm_vars, cb_vars, oa_vars>>

\* --- connect_provider
\* a connect_provider that locks the aggregator before authenticate()
ConnectBeginLocked ==
    /\ task_pc["connect"] = "idle"
    /\ Acquire("connect")
    /\ SetPc("connect", "authenticating")
    /\ UNCHANGED <<providers, cmd_args, cmd_result, conn_obj,
                   fetch_pass, app_cycles, db_providers, vault, status_log,
                   restore_rows, statuses, agg_pc, agg_outcomes, agg_result,
                   dd_vars, poll_vars, cw_vars, fs_vars, wp_vars, rm_vars, cb_vars, oa_vars>>

\* the command starts: a new provider object, authenticate() in flight
ConnectBegin ==
    /\ task_pc["connect"] = "idle"
    /\ SetPc("connect", "authenticating")
    /\ UNCHANGED <<providers, agg_lock, cmd_args, cmd_result, conn_obj,
                   fetch_pass, app_cycles, db_providers, vault, status_log,
                   restore_rows, statuses, agg_pc, agg_outcomes, agg_result,
                   dd_vars, poll_vars, cw_vars, fs_vars, wp_vars, rm_vars, cb_vars, oa_vars>>

\* authenticate() returns Err: `?` returns e.to_string() to the caller
ConnectAuthFailed ==
    /\ task_pc["connect"] = "authenticating"
    /\ \E flow \in {"no_code", "rejected"} :
         LET r == AppAuthenticate(cmd_args.type, vault, flow, None)
         IN  /\ ~r.ok
             /\ cmd_result' = [cmd_result EXCEPT !.connect = <<Err(r.error)>>]
    /\ SetPc("connect", IF cmd_args.path = "event" THEN "erred" ELSE "done")
    /\ UNCHANGED <<providers, agg_lock, cmd_args, conn_obj, fetch_pass,
                   app_cycles, db_providers, vault, status_log, restore_rows,
                   statuses, agg_pc, agg_outcomes, agg_result, dd_vars,
                   poll_vars, cw_vars, fs_vars, wp_vars, rm_vars, cb_vars, oa_vars>>

\* the "connect-provider" listener got Err(e): it publishes the error
ListenerReportsError ==
    /\ task_pc["connect"] = "erred"
    /\ status_log' = Append(status_log,
           StatusPayload(cmd_args.type, FALSE, None,
                         Some(cmd_result.connect[1].error)))
    /\ SetPc("connect", "done")
    /\ UNCHANGED <<providers, agg_lock, cmd_args, cmd_result, conn_obj,
                   fetch_pass, app_cycles, db_providers, vault, restore_rows,
                   statuses, agg_pc, agg_outcomes, agg_result, dd_vars,
                   poll_vars, cw_vars, fs_vars, wp_vars, rm_vars, cb_vars, oa_vars>>

\* authenticate() returns Ok: the tokens are in the keyring
ConnectAuthOk ==
    /\ task_pc["connect"] = "authenticating"
    /\ \E email \in {None, Some(AccountEmail)} :
         LET r == AppAuthenticate(cmd_args.type, vault, "ok", email)
         IN  /\ r.ok
             /\ conn_obj' = r.id
             /\ vault' = r.vault
    /\ SetPc("connect", "authenticated")
    /\ UNCHANGED <<providers, agg_lock, cmd_args, cmd_result, fetch_pass,
                   app_cycles, db_providers, status_log, restore_rows,
                   statuses, agg_pc, agg_outcomes, agg_result, dd_vars,
                   poll_vars, cw_vars, fs_vars, wp_vars, rm_vars, cb_vars, oa_vars>>

\* let mut agg = aggregator.lock().await
ConnectLock ==
    /\ task_pc["connect"] = "authenticated"
    /\ Acquire("connect")
    /\ SetPc("connect", "adding")
    /\ UNCHANGED <<providers, cmd_args, cmd_result, conn_obj, fetch_pass,
                   app_cycles, db_providers, vault, status_log, restore_rows,
                   statuses, agg_pc, agg_outcomes, agg_result, dd_vars,
                   poll_vars, cw_vars, fs_vars, wp_vars, rm_vars, cb_vars, oa_vars>>

\* agg.add_provider(Box::new(p)), and the guard is dropped
ConnectAdd ==
    /\ task_pc["connect"] = "adding"
    /\ providers' = add_provider(providers, conn_obj)
    /\ Release("connect")
    /\ SetPc("connect", "saving")
    /\ UNCHANGED <<cmd_args, cmd_result, conn_obj, fetch_pass,
                   app_cycles, db_providers, vault, status_log, restore_rows,
                   statuses, agg_pc, agg_outcomes, agg_result, dd_vars,
                   poll_vars, cw_vars, fs_vars, wp_vars, rm_vars, cb_vars, oa_vars>>

\* save_provider_to_db, then the status record, then Ok(())
ConnectSave ==
    /\ task_pc["connect"] = "saving"
    /\ \E db_ok \in BOOLEAN :
         db_providers' = save_provider_to_db(db_providers, cmd_args.type,
                                             AccountNameOf(conn_obj), db_ok)
    /\ SetPc("connect", "emitting")
    /\ UNCHANGED <<providers, agg_lock, cmd_args, cmd_result, conn_obj,
                   fetch_pass, app_cycles, vault, status_log, restore_rows,
                   statuses, agg_pc, agg_outcomes, agg_result, dd_vars,
                   poll_vars, cw_vars, fs_vars, wp_vars, rm_vars, cb_vars, oa_vars>>

ConnectEmit ==
    /\ task_pc["connect"] = "emitting"
    /\ status_log' = Append(status_log,
           StatusPayload(cmd_args.type, TRUE, Some(AccountNameOf(conn_obj)), None))
    /\ cmd_result' = [cmd_result EXCEPT !.connect = <<Ok(<<>>)>>]
    /\ SetPc("connect", "done")
    /\ UNCHANGED <<providers, agg_lock, cmd_args, conn_obj, fetch_pass,
                   app_cycles, db_providers, vault, restore_rows, statuses,
                   agg_pc, agg_outcomes, agg_result, dd_vars, poll_vars,
                   cw_vars, fs_vars, wp_vars, rm_vars, cb_vars, oa_vars>>

\* --- disconnect_provider
DisconnectLock ==
    /\ task_pc["disconnect"] = "idle"
    /\ Acquire("disconnect")
    /\ SetPc("disconnect", "removing")
    /\ UNCHANGED <<providers, cmd_args, cmd_result, conn_obj, fetch_pass,
                   app_cycles, db_providers, vault, status_log, restore_rows,
                   statuses, agg_pc, agg_outcomes, agg_result, dd_vars,
                   poll_vars, cw_vars, fs_vars, wp_vars, rm_vars, cb_vars, oa_vars>>

\* the removals, and the guard is dropped
DisconnectRemove ==
    /\ task_pc["disconnect"] = "removing"
    /\ providers' = DisconnectRemovals(providers, cmd_args.type)
    /\ Release("disconnect")
    /\ SetPc("disconnect", "clearing")
    /\ UNCHANGED <<cmd_args, cmd_result, conn_obj, fetch_pass,
                   app_cycles, db_providers, vault, status_log, restore_rows,
                   statuses, agg_pc, agg_outcomes, agg_result, dd_vars,
                   poll_vars, cw_vars, fs_vars, wp_vars, rm_vars, cb_vars, oa_vars>>

\* clear_keyring_entries (Google, Microsoft) and remove_provider_from_db
DisconnectClear ==
    /\ task_pc["disconnect"] = "clearing"
    /\ vault' = IF cmd_args.type = "apple" THEN vault
                ELSE clear_keyring_entries(vault, DisconnectService(cmd_args.type))
    /\ \E db_ok \in BOOLEAN :
         db_providers' = remove_provider_from_db(db_providers, cmd_args.type, db_ok)
    /\ SetPc("disconnect", "emitting")
    /\ UNCHANGED <<providers, agg_lock, cmd_args, cmd_result, conn_obj,
                   fetch_pass, app_cycles, status_log, restore_rows,
                   statuses, agg_pc, agg_outcomes, agg_result, dd_vars,
                   poll_vars, cw_vars, fs_vars, wp_vars, rm_vars, cb_vars, oa_vars>>

\* the status record, then Ok(())
DisconnectEmit ==
    /\ task_pc["disconnect"] = "emitting"
    /\ status_log' = Append(status_log,
                            StatusPayload(cmd_args.type, FALSE, None, None))
    /\ cmd_result' = [cmd_result EXCEPT !.disconnect = <<Ok(<<>>)>>]
    /\ SetPc("disconnect", "done")
    /\ UNCHANGED <<providers, agg_lock, cmd_args, conn_obj, fetch_pass,
                   app_cycles, db_providers, vault, restore_rows, statuses,
                   agg_pc, agg_outcomes, agg_result, dd_vars, poll_vars,
                   cw_vars, fs_vars, wp_vars, rm_vars, cb_vars, oa_vars>>

\* --- restore_providers
\* the SELECT; no pool, an error or no row ends the task
RestoreRead ==
    /\ task_pc["restore"] = "idle"
    /\ \E loaded \in BOOLEAN :
         /\ restore_rows' = IF loaded THEN db_providers ELSE {}
         /\ SetPc("restore", IF loaded /\ db_providers # {} THEN "selected"
                             ELSE "done")
    /\ UNCHANGED <<providers, agg_lock, cmd_args, cmd_result, conn_obj,
                   fetch_pass, app_cycles, db_providers, vault, status_log,
                   statuses, agg_pc, agg_outcomes, agg_result, dd_vars,
                   poll_vars, cw_vars, fs_vars, wp_vars, rm_vars, cb_vars, oa_vars>>

RestoreLock ==
    /\ task_pc["restore"] = "selected"
    /\ Acquire("restore")
    /\ SetPc("restore", "adding")
    /\ UNCHANGED <<providers, cmd_args, cmd_result, conn_obj, fetch_pass,
                   app_cycles, db_providers, vault, status_log, restore_rows,
                   statuses, agg_pc, agg_outcomes, agg_result, dd_vars,
                   poll_vars, cw_vars, fs_vars, wp_vars, rm_vars, cb_vars, oa_vars>>

\* the loop over the rows, and the guard is dropped at the end
RestoreAdd ==
    /\ task_pc["restore"] = "adding"
    /\ providers' = RestoreAll(providers, RowsInOrder(restore_rows), vault)
    /\ Release("restore")
    /\ SetPc("restore", "done")
    /\ UNCHANGED <<cmd_args, cmd_result, conn_obj, fetch_pass,
                   app_cycles, db_providers, vault, status_log, restore_rows,
                   statuses, agg_pc, agg_outcomes, agg_result, dd_vars,
                   poll_vars, cw_vars, fs_vars, wp_vars, rm_vars, cb_vars, oa_vars>>

\* --- get_provider_statuses
StatusesLock ==
    /\ task_pc["get_statuses"] = "idle"
    /\ Acquire("get_statuses")
    /\ SetPc("get_statuses", "reading")
    /\ UNCHANGED <<providers, cmd_args, cmd_result, conn_obj, fetch_pass,
                   app_cycles, db_providers, vault, status_log, restore_rows,
                   statuses, agg_pc, agg_outcomes, agg_result, dd_vars,
                   poll_vars, cw_vars, fs_vars, wp_vars, rm_vars, cb_vars, oa_vars>>

StatusesReturn ==
    /\ task_pc["get_statuses"] = "reading"
    /\ statuses' = [ i \in 1..Len(providers) |->
                       StatusPayload(connected_providers(providers)[i][1], TRUE,
                                     Some(connected_providers(providers)[i][2]),
                                     None) ]
    /\ Release("get_statuses")
    /\ SetPc("get_statuses", "done")
    /\ UNCHANGED <<providers, cmd_args, cmd_result, conn_obj, fetch_pass,
                   app_cycles, db_providers, vault, status_log, restore_rows,
                   agg_pc, agg_outcomes, agg_result, dd_vars, poll_vars,
                   cw_vars, fs_vars, wp_vars, rm_vars, cb_vars, oa_vars>>

AppNext ==
    \/ PollerWakeNoProviders
    \/ PollerWake
    \/ ForceSyncBegin
    \/ \E task \in {"poller", "force_sync"} : FetchCall(task)
    \/ \E task \in {"poller", "force_sync"} : FetchReturn(task)
    \/ ConnectBegin
    \/ ConnectAuthFailed
    \/ ListenerReportsError
    \/ ConnectAuthOk
    \/ ConnectLock
    \/ ConnectAdd
    \/ ConnectSave
    \/ ConnectEmit
    \/ DisconnectLock
    \/ DisconnectRemove
    \/ DisconnectClear
    \/ DisconnectEmit
    \/ RestoreRead
    \/ RestoreLock
    \/ RestoreAdd
    \/ StatusesLock
    \/ StatusesReturn

SpecApp == AppInit /\ [][AppNext]_vars


(***************************************************************************)
(* Properties of the command surface (SpecApp)                             *)
(***************************************************************************)
\* disconnect_provider has returned and no connect_provider was invoked
DisconnectedForGood ==
    /\ task_pc["disconnect"] = "done"
    /\ task_pc["connect"] = "idle"

\* the aggregator holds no provider of the type, under any provider_id
NoProviderOfType(type) ==
    \A i \in 1..Len(providers) : ProviderTypeOf(providers[i]) # type

\* C24: once disconnect(T) has returned (and nothing connects T again) the
\* aggregator holds no provider of type T under any provider_id, the status
\* report has no entry of type T, no row of type T is left in
\* calendar_providers, and a later fetch pass calls no provider of type T.
C24_DisconnectRemovesType ==
    DisconnectedForGood =>
        /\ NoProviderOfType(cmd_args.type)
        /\ \A i \in 1..Len(providers) :
               connected_providers(providers)[i][1] # cmd_args.type
        /\ \A r \in db_providers : r.provider_type # cmd_args.type

\* C25: once disconnect(T) has returned for Google or Microsoft, no keyring
\* entry the provider stored for the account is left (under the service name
\* and keys the provider stores them with), so that the restore path of the
\* provider finds no refresh token.
C25_DisconnectClearsTokens ==
    (DisconnectedForGood /\ cmd_args.type \in {"google", "microsoft"}) =>
        /\ \A e \in vault : e.service # KeyringService(cmd_args.type)
        /\ KeyringOf(vault, cmd_args.type, AccountEmail).refresh_token = None
        /\ RestoreRow([provider_type |-> cmd_args.type,
                       account_name |-> AccountEmail], vault) = <<>>

\* the status records connect_provider or its listener published
ConnectRecords ==
    SelectSeq(status_log, LAMBDA r : r.connected \/ r.error # None)

\* C26: a connect that failed, invoked as a command or through the
\* connect-provider event, has returned an error string and published one
\* status record with connected = false and that error; a connect that
\* succeeded has published one record with connected = true and the
\* account name.
C26_ConnectReportsOutcome ==
    task_pc["connect"] = "done" =>
        /\ cmd_result.connect # None
        /\ Len(ConnectRecords) = 1
        /\ ConnectRecords[1].provider = cmd_args.type
        /\ IF cmd_result.connect[1].ok
           THEN /\ ConnectRecords[1].connected
                /\ ConnectRecords[1].account_name = Some(AccountNameOf(conn_obj))
           ELSE /\ ~ConnectRecords[1].connected
                /\ ConnectRecords[1].error = Some(cmd_result.connect[1].error)

\* where each task stands while it works on the provider collection
InAggregator(task) ==
    CASE task \in {"poller", "force_sync"} -> task_pc[task] = "fetching"
      [] task = "connect" -> task_pc[task] = "adding"
      [] task = "disconnect" -> task_pc[task] = "removing"
      [] task = "restore" -> task_pc[task] = "adding"
      [] OTHER -> task_pc[task] = "reading"

\* C27: no two of the poller cycle, force_sync, connect's add_provider,
\* disconnect's removal, restore_providers and get_statuses work on the
\* provider collection at once, and every provider call of one fetch pass
\* sees the same provider list.
C27_AggregatorMutex ==
    /\ \A t, u \in Tasks : (InAggregator(t) /\ InAggregator(u)) => t = u
    /\ \A t \in Tasks : InAggregator(t) => agg_lock = t
    /\ \A t \in {"poller", "force_sync"} :
           \A i, k \in 1..Len(fetch_pass[t]) : fetch_pass[t][i] = fetch_pass[t][k]
    /\ \A t \in {"poller", "force_sync"} :
           (task_pc[t] = "fetching" /\ fetch_pass[t] # <<>>) =>
               fetch_pass[t][1] = providers

\* a fetch pass over two providers is in flight, between its two provider
\* calls, with disconnect and get_statuses still to come
C27_Witness ==
    /\ task_pc["force_sync"] = "fetching"
    /\ Len(providers) = 2
    /\ Len(fetch_pass["force_sync"]) = 1
    /\ task_pc["connect"] = "done"
    /\ task_pc["restore"] = "done"
    /\ task_pc["disconnect"] = "idle"
    /\ task_pc["get_statuses"] = "idle"

\* C28: connect holds the aggregator lock only for add_provider, after
\* authenticate() returned Ok: never while the authentication is in flight,
\* during which the poller, force_sync and disconnect take the lock and finish.
C28_NoLockWhileAuthenticating ==
    /\ task_pc["connect"] = "authenticating" => agg_lock # "connect"
    /\ agg_lock = "connect" =>
           (task_pc["connect"] = "adding" /\ conn_obj # <<>>)
    /\ task_pc["connect"] \in {"saving", "emitting", "done", "erred"} =>
           agg_lock # "connect"

\* the authentication is in flight and a poller cycle, force_sync and
\* disconnect have all run to their end meanwhile
C28_Witness ==
    /\ task_pc["connect"] = "authenticating"
    /\ app_cycles = 1
    /\ fetch_pass["poller"] # <<>>
    /\ task_pc["force_sync"] = "done"
    /\ task_pc["disconnect"] = "done"

(***************************************************************************)
(* SpecCallback: one OAuth attempt of a web provider — the redirect        *)
(* listener (google.rs listen_for_callback, microsoft.rs wait_for_callback) *)
(* and the token exchange that follows it.  A tiny_http Request that is    *)
(* dropped without respond() answers with an empty 500 response.           *)
(***************************************************************************)
\* most requests arriving at the bound port during one attempt
MaxRequests == 2

\* the values run_oauth_flow can draw for `state`
Nonces == {"n1", "n2"}

\* a request at the redirect port: whether its URL parses, and its query
\* parameters error, state and code
CallbackRequests ==
    { [parse_ok |-> FALSE, error |-> None, state |-> None, code |-> None] }
    \cup [ parse_ok : {TRUE},
           error : {None, Some("access_denied")},
           state : {None} \cup { Some(n) : n \in Nonces },
           code : {None, Some("auth-code")} ]

\* the CalendarError::AuthenticationFailed message for an error parameter:
\* format!("user denied consent: {}", error.1) and format!("{error}: {desc}")
DenialMessage(type, error) ==
    IF type = "google" THEN <<"user denied consent: ", error>>
    ELSE <<error, ": ", "">>

CallbackOk(code) ==
    [ok |-> TRUE, code |-> code, error |-> "none", message |-> <<>>]
CallbackErr(message) ==
    [ok |-> FALSE, code |-> "", error |-> "AuthenticationFailed",
     message |-> message]

\* request.respond(response)
Respond(body) == [ev |-> "response", status |-> 200, body |-> body]

\* a Request goes out of scope unanswered
DropSilently == <<>>

\* a Request goes out of scope unanswered: tiny_http answers 500
DropRequest == <<[ev |-> "response", status |-> 500, body |-> "empty"]>>

Received == <<[ev |-> "recv"]>>
Returned == <<[ev |-> "return"]>>

\* listen_for_callback(server): what it does, in order, and its Result
listen_for_callback(queue) ==
    IF queue = <<>>
    THEN [ trace |-> Returned,
           result |-> CallbackErr(<<"timeout waiting for OAuth callback">>) ]
    ELSE LET request == Head(queue)
         IN  IF ~request.parse_ok
             THEN [ trace |-> Received \o DropRequest \o Returned,
                    result |-> CallbackErr(<<"failed to parse callback URL: ", "e">>) ]
             ELSE IF request.error # None
             THEN [ trace |-> Received \o <<Respond("failed")>> \o Returned,
                    result |-> CallbackErr(DenialMessage("google", request.error[1])) ]
             ELSE IF request.code = None
             THEN [ trace |-> Received \o DropRequest \o Returned,
                    result |-> CallbackErr(<<"no authorization code in callback">>) ]
             ELSE [ trace |-> Received \o <<Respond("successful")>> \o Returned,
                    result |-> CallbackOk(request.code[1]) ]

\* wait_for_callback(&server, expected_state), run in the closure that owns
\* the server
wait_for_callback(queue, expected_state) ==
    IF queue = <<>>
    THEN [ trace |-> Returned,
           result |-> CallbackErr(<<"timed out waiting for OAuth callback">>) ]
    ELSE LET request == Head(queue)
         IN  IF ~request.parse_ok
             THEN [ trace |-> Received \o DropRequest \o Returned,
                    result |-> CallbackErr(<<"invalid callback URL: ", "e">>) ]
             ELSE IF request.error # None
             THEN [ trace |-> Received \o <<Respond("failed")>> \o Returned,
                    result |-> CallbackErr(DenialMessage("microsoft",
                                                         request.error[1])) ]
             ELSE IF request.state = None
             THEN [ trace |-> Received \o DropRequest \o Returned,
                    result |-> CallbackErr(<<"missing state parameter">>) ]
             ELSE IF request.state[1] # expected_state
             THEN [ trace |-> Received \o <<Respond("state mismatch")>> \o Returned,
                    result |-> CallbackErr(<<"state parameter mismatch">>) ]
             ELSE IF request.code = None
             THEN [ trace |-> Received \o DropRequest \o Returned,
                    result |-> CallbackErr(
                                   <<"missing authorization code in callback">>) ]
             ELSE [ trace |-> Received \o <<Respond("successful")>> \o Returned,
                    result |-> CallbackOk(request.code[1]) ]

\* the provider object the attempt runs on
AttemptProvider(type) ==
    [new(type) EXCEPT !.client_id =
         IF type = "microsoft" THEN "configured-client-id" ELSE @]

CallbackInit ==
    /\ providers = <<>>
    /\ agg_pc = "idle"
    /\ agg_outcomes = <<>>
    /\ agg_result = NoResult
    /\ dd_input = <<>>
    /\ dd_calls = 0
    /\ dd_once = <<>>
    /\ dd_twice = <<>>
    /\ PollerIdle
    /\ CacheIdle
    /\ SyncIdle
    /\ ProviderIdle
    /\ RemoveIdle
    /\ AppIdle
    /\ FlowsIdle
    /\ cb_pc = "bound"
    /\ cb_attempt \in [type : ProviderTypes, nonce : Nonces]
    /\ cb_queue \in SeqsUpTo(CallbackRequests, MaxRequests)
    /\ cb_handled = <<>>
    /\ cb_trace = <<>>
    /\ cb_result = <<>>
    /\ cb_exchange = <<>>

\* the blocking listener runs to its end and the server is dropped
Listen ==
    /\ cb_pc = "bound"
    /\ LET r == IF cb_attempt.type = "google" THEN listen_for_callback(cb_queue)
                ELSE wait_for_callback(cb_queue, cb_attempt.nonce)
       IN  /\ cb_trace' = r.trace
           /\ cb_result' = <<r.result>>
           /\ cb_handled' = IF cb_queue = <<>> THEN <<>> ELSE <<Head(cb_queue)>>
           /\ cb_queue' = IF cb_queue = <<>> THEN <<>> ELSE Tail(cb_queue)
    /\ cb_pc' = "listened"
    /\ UNCHANGED <<cb_attempt, cb_exchange, agg_vars, dd_vars, poll_vars,
                   cw_vars, fs_vars, wp_vars, rm_vars, app_vars, oa_vars>>

\* the listener returned Err: `??` ends the attempt
AttemptFails ==
    /\ cb_pc = "listened"
    /\ ~cb_result[1].ok
    /\ LET r == authenticate(AttemptProvider(cb_attempt.type), EmptyKeyring,
                             "no_code", AppTokenResponse, None, 0, 0)
       IN  cb_exchange' = <<[sent |-> r.sent, ok |-> r.ok, error |-> r.error,
                             p |-> r.p]>>
    /\ cb_pc' = "failed"
    /\ UNCHANGED <<cb_attempt, cb_queue, cb_handled, cb_trace, cb_result,
                   agg_vars, dd_vars, poll_vars, cw_vars, fs_vars, wp_vars,
                   rm_vars, app_vars, oa_vars>>

\* the listener returned the code: exchange_code and what follows it
ExchangeCode ==
    /\ cb_pc = "listened"
    /\ cb_result[1].ok
    /\ \E flow \in {"ok", "rejected", "network"} :
         LET r == authenticate(AttemptProvider(cb_attempt.type), EmptyKeyring,
                               flow, AppTokenResponse, Some(AccountEmail), 0, 0)
         IN  cb_exchange' = <<[sent |-> r.sent, ok |-> r.ok, error |-> r.error,
                               p |-> r.p]>>
    /\ cb_pc' = "exchanged"
    /\ UNCHANGED <<cb_attempt, cb_queue, cb_handled, cb_trace, cb_result,
                   agg_vars, dd_vars, poll_vars, cw_vars, fs_vars, wp_vars,
                   rm_vars, app_vars, oa_vars>>

CallbackNext ==
    \/ Listen
    \/ AttemptFails
    \/ ExchangeCode

SpecCallback == CallbackInit /\ [][CallbackNext]_vars

(***************************************************************************)
(* Properties of the OAuth attempt (SpecCallback)                          *)
(***************************************************************************)
\* the positions of the listener's trace holding an event of the kind
TraceAt(ev) == { i \in 1..Len(cb_trace) : cb_trace[i].ev = ev }

StateMatches ==
    /\ cb_handled # <<>>
    /\ cb_handled[1].state = Some(cb_attempt.nonce)

\* C30: a Microsoft attempt reaches the token exchange only if the callback
\* carried a state equal to the nonce of the attempt; with a missing or
\* different state the attempt fails with AuthenticationFailed, no token
\* request is sent, the provider's tokens are untouched, and the error is
\* not the one reported for a denied consent.
C30_StateNonceChecked ==
    (cb_attempt.type = "microsoft" /\ cb_pc \in {"exchanged", "failed"}) =>
        /\ cb_exchange[1].sent => StateMatches
        /\ (cb_handled # <<>> /\ ~StateMatches) =>
               /\ cb_pc = "failed"
               /\ ~cb_result[1].ok
               /\ cb_result[1].error = "AuthenticationFailed"
               /\ ~cb_exchange[1].sent
               /\ cb_exchange[1].p = AttemptProvider("microsoft")
               /\ cb_result[1].message # DenialMessage("microsoft", "access_denied")

\* the same, for callbacks that carry no error parameter
C30_WithoutErrorParameter ==
    (cb_handled # <<>> /\ cb_handled[1].error = None) => C30_StateNonceChecked


\* ======================================================================
\* SpecFlows: OAuth attempts running at once (google.rs authenticate,
\* microsoft.rs run_oauth_flow), each binding a loopback port
\* ======================================================================

\* google.rs PORT_RANGE_START / PORT_RANGE_END
PORT_RANGE_START == 19847
PORT_RANGE_END == 19857
\* microsoft.rs REDIRECT_PORT_START / REDIRECT_PORT_END
REDIRECT_PORT_START == 19857
REDIRECT_PORT_END == 19867

\* attempts in flight at once
MaxAttempts == 2
FlowTypes == {"google", "microsoft"}
\* what generate_code_verifier may draw
Verifiers == {"v1", "v2"}

\* for port in lo..=hi: the first port tiny_http::Server::http can bind
FirstFree(lo, hi, taken) ==
    LET free == {port \in lo..hi : port \notin taken}
    IN  IF free = {} THEN None
        ELSE Some(CHOOSE port \in free : \A q \in free : port <= q)

find_available_port(taken) == FirstFree(PORT_RANGE_START, PORT_RANGE_END, taken)

start_redirect_server(taken) ==
    FirstFree(REDIRECT_PORT_START, REDIRECT_PORT_END, taken)

BindPort(type, taken) ==
    IF type = "google" THEN find_available_port(taken)
    ELSE start_redirect_server(taken)

\* Sha256 digest of the verifier, base64url: one challenge per verifier
code_challenge(verifier) == <<"S256", verifier>>

\* format!("http://127.0.0.1:{port}/callback") / format!("http://localhost:{port}")
RedirectUri(type, port) ==
    IF type = "google" THEN <<"http://127.0.0.1:", port, "/callback">>
    ELSE <<"http://localhost:", port>>

\* the ports the attempts' tiny_http servers hold
HeldPorts ==
    {oa_attempts[i].port[1] :
        i \in {j \in DOMAIN oa_attempts : oa_attempts[j].port # None}}

\* the verifier another attempt generated, if one has (one shared slot)
SharedVerifier(i) ==
    LET others == {j \in DOMAIN oa_attempts :
                      j # i /\ oa_attempts[j].verifier # None}
    IN  IF others = {} THEN oa_attempts[i].verifier[1]
        ELSE oa_attempts[CHOOSE j \in others : TRUE].verifier[1]

\* the &verifier handed to exchange_code: the attempt's own local
ExchangeVerifier(i) == oa_attempts[i].verifier[1]

NewAttempt(type) ==
    [type |-> type, pc |-> "start", verifier |-> None, challenge |-> None,
     port |-> None, redirect_uri |-> None, url |-> None, sent |-> None]

\* ports other processes may hold when the attempts begin
BusySets ==
    { {},
      PORT_RANGE_START..(PORT_RANGE_END - 1),
      PORT_RANGE_START..PORT_RANGE_END,
      REDIRECT_PORT_START..REDIRECT_PORT_END }

FlowsInit ==
    /\ PollerIdle
    /\ CacheIdle /\ SyncIdle /\ ProviderIdle
    /\ RemoveIdle /\ AppIdle /\ CallbackIdle
    /\ providers = <<>>
    /\ agg_pc = "idle"
    /\ agg_outcomes = <<>>
    /\ agg_result = [events |-> <<>>, errors |-> <<>>]
    /\ dd_input = <<>>
    /\ dd_calls = 0
    /\ dd_once = <<>>
    /\ dd_twice = <<>>
    /\ \E types \in [1..MaxAttempts -> FlowTypes] :
           oa_attempts = [i \in 1..MaxAttempts |-> NewAttempt(types[i])]
    /\ oa_busy \in BusySets

FlowStep(i, rec) ==
    /\ oa_attempts' = [oa_attempts EXCEPT ![i] = rec]
    /\ UNCHANGED <<oa_busy, agg_vars, dd_vars, poll_vars, cw_vars, fs_vars,
                   wp_vars, rm_vars, app_vars, cb_vars>>

\* let verifier = generate_code_verifier(); let challenge = code_challenge(&verifier)
FlowGenerate(i) ==
    /\ oa_attempts[i].pc = "start"
    /\ \E verifier \in Verifiers :
           FlowStep(i, [oa_attempts[i] EXCEPT
                           !.pc = "generated",
                           !.verifier = Some(verifier),
                           !.challenge = Some(code_challenge(verifier))])

\* find_available_port()? / start_redirect_server()?, then the redirect_uri
FlowBind(i) ==
    /\ oa_attempts[i].pc = "generated"
    /\ LET a == oa_attempts[i]
           port == BindPort(a.type, oa_busy \cup HeldPorts)
       IN  IF port = None
           THEN FlowStep(i, [a EXCEPT !.pc = "failed"])
           ELSE FlowStep(i, [a EXCEPT
                               !.pc = "bound",
                               !.port = port,
                               !.redirect_uri =
                                   Some(RedirectUri(a.type, port[1]))])

\* the authorization URL handed to the browser
FlowOpenBrowser(i) ==
    /\ oa_attempts[i].pc = "bound"
    /\ LET a == oa_attempts[i]
       IN  FlowStep(i, [a EXCEPT
                           !.pc = "opened",
                           !.url = Some([redirect_uri |-> a.redirect_uri[1],
                                         code_challenge |-> a.challenge[1]])])

\* the blocking listener returns and drops the server: a code, or an error
FlowCallback(i) ==
    /\ oa_attempts[i].pc = "opened"
    /\ \E got_code \in BOOLEAN :
           FlowStep(i, [oa_attempts[i] EXCEPT
                           !.pc = IF got_code THEN "received" ELSE "failed",
                           !.port = None])

\* exchange_code(&code, &verifier, &redirect_uri)
FlowExchange(i) ==
    /\ oa_attempts[i].pc = "received"
    /\ LET a == oa_attempts[i]
       IN  FlowStep(i, [a EXCEPT
                           !.pc = "exchanged",
                           !.sent = Some([code_verifier |-> ExchangeVerifier(i),
                                          redirect_uri |-> a.redirect_uri[1]])])

FlowsNext ==
    \E i \in 1..MaxAttempts :
        \/ FlowGenerate(i)
        \/ FlowBind(i)
        \/ FlowOpenBrowser(i)
        \/ FlowCallback(i)
        \/ FlowExchange(i)

SpecFlows == FlowsInit /\ [][FlowsNext]_vars

GooglePorts == PORT_RANGE_START..PORT_RANGE_END
MicrosoftPorts == REDIRECT_PORT_START..REDIRECT_PORT_END

\* C31: the port ranges of the two flows are disjoint: no Microsoft listener
\* ever holds a port the Google flow can bind, and no Google listener ever
\* holds a port the Microsoft flow can bind.
C31_PortRangesDisjoint ==
    \A i \in DOMAIN oa_attempts :
        oa_attempts[i].port # None =>
            /\ oa_attempts[i].type = "microsoft" =>
                   oa_attempts[i].port[1] \notin GooglePorts
            /\ oa_attempts[i].type = "google" =>
                   oa_attempts[i].port[1] \notin MicrosoftPorts

\* C32: in every interleaving of the attempts, the code_verifier an attempt
\* sends in its token exchange is the one whose S256 challenge is in that
\* attempt's authorization URL, and the redirect_uri it sends is the one in
\* that URL.
C32_VerifierOwnership ==
    \A i \in DOMAIN oa_attempts :
        oa_attempts[i].sent # None =>
            /\ oa_attempts[i].url[1].code_challenge =
                   code_challenge(oa_attempts[i].sent[1].code_verifier)
            /\ oa_attempts[i].sent[1].redirect_uri =
                   oa_attempts[i].url[1].redirect_uri

\* two attempts of one provider type, begun together with different
\* verifiers, have both exchanged their codes
C32_Witness ==
    /\ Len(oa_attempts) >= 2
    /\ oa_attempts[1].type = oa_attempts[2].type
    /\ oa_attempts[1].sent # None
    /\ oa_attempts[2].sent # None
    /\ oa_attempts[1].verifier # oa_attempts[2].verifier
    /\ oa_attempts[1].sent[1].redirect_uri # oa_attempts[2].sent[1].redirect_uri


\* ======================================================================
\* Startup ordering of restore_providers and the poller (SpecApp)
\* ======================================================================

\* restore_providers has selected rows it will turn into providers and has
\* not added them yet
RestorePending ==
    /\ task_pc["restore"] \in {"selected", "adding"}
    /\ RestoreAll(<<>>, RowsInOrder(restore_rows), vault) # <<>>

\* the step in which the poller's first iteration looks at provider_count()
PollerFirstCycle ==
    /\ app_cycles = 0
    /\ task_pc["poller"] = "idle"
    /\ \/ app_cycles' = 1
       \/ task_pc'["poller"] = "fetching"

\* C33: restore_providers being spawned before the poller, every provider it
\* will add is in the aggregator when the poller runs its first cycle, in
\* every interleaving: the first cycle never begins (and never takes the
\* zero-provider branch) while restored providers still wait to be added.
C33_RestoredBeforeFirstCycle ==
    [][PollerFirstCycle => ~RestorePending]_vars


\* ======================================================================
\* The poller's publishes against the durable cache (Spec)
\* ======================================================================

EventSet(events) == {events[i] : i \in DOMAIN events}

\* C34: whenever the poller is between cycles, the durable cache holds
\* exactly the event set of the poller's most recent publish, the empty set
\* of the zero-provider transition and a cycle whose cache write failed
\* included.
C34_CacheMatchesPublish ==
    (poller_pc = "sleeping" /\ topic # <<>>) =>
        EventSet(load_cached_events(cache)) = EventSet(topic[1])


\* a cycle that fetched, passed the all-failed test and found the new
\* fingerprints equal to last_fingerprints: nothing is published
PollCycleSkipsPublish ==
    /\ cycle_no' = cycle_no + 1
    /\ provider_count(providers) # 0
    /\ ~AllProvidersFailed(poll_result')
    /\ emit_log' = <<>>

\* C35: whenever a poll cycle skips publishing because the new fingerprints
\* equal the retained map, the list most recently published on
\* "calendar-events-update", by the poller or by force_sync, has those same
\* fingerprints.
C35_SkipMeansPublished ==
    [][(PollCycleSkipsPublish /\ topic' # <<>>) =>
          FingerprintMap(topic'[1]) = FingerprintMap(poll_result'.events)]_vars


\* C36: after any sequence of restore_providers, connect and disconnect the
\* aggregator never holds two providers of one provider_id.
C36_ProviderIdsUnique ==
    \A i \in DOMAIN providers : \A j \in DOMAIN providers :
        providers[i] = providers[j] => i = j


\* a cycle that fetched and in which at least one provider answered Ok
PollCycleSomeSucceeded ==
    /\ cycle_no' = cycle_no + 1
    /\ provider_count(providers) # 0
    /\ Len(poll_result'.errors) < Len(poll_result'.calls)

\* C37: a poll cycle is skipped as a failure only if every attempted provider
\* failed: when at least one provider succeeded, even with zero events, the
\* result goes through change detection, so fingerprints that differ from
\* the retained map are published (the empty list included).
C37_SkippedOnlyIfAllFailed ==
    [][(/\ PollCycleSomeSucceeded
        /\ FingerprintMap(poll_result'.events) # last_fingerprints) =>
          emit_log' = <<poll_result'.events>>]_vars


\* ======================================================================
\* SpecDisconnect: the poller, and one disconnect_provider between cycles
\* ======================================================================

DisconnectInit ==
    /\ providers \in SyncProviders \ {<<>>}
    /\ agg_pc = "idle"
    /\ agg_outcomes = <<>>
    /\ agg_result = NoResult
    /\ dd_input = <<>>
    /\ dd_calls = 0
    /\ dd_once = <<>>
    /\ dd_twice = <<>>
    /\ poller_pc = "init"
    /\ cold_load = "none"
    /\ cycle_no = 0
    /\ last_fingerprints = {}
    /\ poll_result = NoResult
    /\ cache \in InitialCaches
    /\ topic = <<>>
    /\ emit_log = <<>>
    /\ write_log = <<>>
    /\ ExtIdle

\* disconnect_provider: under the aggregator lock the provider is removed;
\* the command then clears credentials and the row, and returns
DisconnectReturns(pid) ==
    /\ rm_pc = "start"
    /\ pid \in InRange(providers)
    /\ providers' = remove_provider(providers, pid)
    /\ rm_pc' = "removed"
    /\ rm_id' = pid
    /\ rm_before' = <<providers>>
    /\ rm_found' = <<remove_provider_returns(providers, pid)>>
    /\ UNCHANGED <<rm_first, agg_pc, agg_outcomes, agg_result, dd_vars, poll_vars,
                   cw_vars, fs_vars, wp_vars, app_vars, cb_vars, oa_vars>>

DisconnectNext ==
    \/ PollerNoPool
    \/ PollerColdStartLoadFailed
    \/ PollerColdStart
    \/ PollCycleNoProviders
    \/ PollCycleFetch
    \/ \E pid \in PollProviders : DisconnectReturns(pid)

SpecDisconnect == DisconnectInit /\ [][DisconnectNext]_vars

\* no event of provider pid is in the list last published
NoEventOf(pid, published) ==
    published # <<>> =>
        \A i \in DOMAIN published[1] : published[1][i].provider_id # pid

\* C38: once disconnect_provider has returned, the poll cycle that follows
\* leaves published an event set with no event of the removed provider, in
\* every execution, those where the remaining providers fail included.
C38_RemovedEventsGone ==
    [][(rm_pc = "removed" /\ cycle_no' = cycle_no + 1) =>
          NoEventOf(rm_id, topic')]_vars


\* ======================================================================
\* The identity of Google providers in the aggregator (SpecProvider)
\* ======================================================================

\* C39: every Google provider the aggregator holds has a resolved identity
\* "google-<email>", the email being that of its account, and never the
\* placeholder "google-unknown", whether connect_provider (after
\* authenticate) or restore_providers added it.
C39_GoogleIdentityResolved ==
    (wp_connected /\ wp.type = "google") =>
        /\ wp.account_email # None
        /\ wp.account_email[1] # "unknown"
        /\ provider_id(wp) = Format("google-", wp.account_email[1])
        /\ provider_id(wp) # new("google").provider_id_cache

\* a Google provider added by restore_providers from stored credentials
C39_Witness ==
    /\ wp_connected
    /\ wp.type = "google"
    /\ wp_op.name = "restore"
    /\ wp_op.ok

\* a Google provider added by connect_provider after authenticate
C39_ConnectPath ==
    /\ wp_connected
    /\ wp.type = "google"
    /\ wp_op.name = "authenticate"
    /\ wp_op.ok


\* a refresh_token call that returned Err before a token response was
\* handled: no refresh credential, transport failure, non-success response
\* or unparseable response
RefreshFailedEarly ==
    /\ wp_op'.name = "refresh_token"
    /\ ~wp_op'.ok
    /\ ~wp_op'.handled

\* C40: when refresh_token() returns an error for a missing refresh
\* credential, a transport failure, a non-success response or an unparseable
\* response, the provider's access_token, refresh_token and token_expiry
\* and the credential-store entries are exactly what they were before.
C40_FailedRefreshChangesNothing ==
    [][RefreshFailedEarly =>
          /\ wp'.access_token = wp.access_token
          /\ wp'.refresh_token = wp.refresh_token
          /\ wp'.token_expiry = wp.token_expiry
          /\ keyring' = keyring]_vars

\* a provider holding tokens, with entries in the credential store, whose
\* refresh has just failed on an unparseable response
C40_Witness ==
    /\ wp_op.name = "refresh_token"
    /\ ~wp_op.ok
    /\ wp_op.sent
    /\ wp_op.verdict = "garbled"
    /\ wp.access_token # None
    /\ wp.token_expiry # None
    /\ keyring.refresh_token # None


====
